---- MODULE Spec2Model ----
(***************************************************************************)
(* A model of the dmsg core: the frame codec (types.go), the dial          *)
(* request/response verification (types.go), stream id allocation          *)
(* (types.go), the port manager (port_manager.go) and the transport        *)
(* manager's per-transport worker (transport manager source).              *)
(*                                                                         *)
(* Each component has its own specification (SpecFrame, SpecPort, ...);    *)
(* a component's specification keeps the other components' variables at    *)
(* their idle values.                                                      *)
(***************************************************************************)
EXTENDS Integers, Sequences, FiniteSets, TLC

VARIABLES
    \* ---- frame codec: one byte connection with a writer and a reader
    conn,       \* bytes written to the connection and not yet read
    connEOF,    \* the byte source has ended (no more bytes will arrive)
    sent,       \* <<ft, id, pay>> of every frame written and not yet read
    rd,         \* result of the last readFrame not yet dispatched, or none
    want,       \* what the writer passed to MakeFrame for the frame in rd
    ackIn,      \* offset passed to writeAckFrame for each frame of sent, or none
    ackOut,     \* result of the last disassembleAckPayload, or none
    \* ---- port manager
    listeners,  \* PortManager.listeners: port -> listener
    pmPC,       \* where each caller of NextEmptyEphemeralPort stands
    pmPort,     \* the port the caller drew
    pmRet,      \* the port NextEmptyEphemeralPort returned to the caller
    pmRetried,  \* the caller drew a registered port and drew again
    pmCrashed,  \* the process panicked inside pm.rand
    \* ---- stream id allocation
    idPC,       \* where the caller of randID stands
    idInitiator,\* randID's argument
    idBytes,    \* the bytes cipher.RandByte(2) last returned
    idRet,      \* the id randID returned
    idIsInit,   \* isInitiatorID of the returned id, once the peer has checked it
    \* ---- dial requests, at the responder
    lastTS,     \* the Timestamp last accepted from each source public key
    accepted,   \* <<SrcPK, Timestamp>> of every request accepted so far
    reqIn,      \* the dial request last received, as received
    req,        \* the caller's copy of that request after Verify returned
    verr,       \* what Verify returned for it
    \* ---- dial responses, at the initiator
    respArgs,   \* reqDstPK and reqHash passed to DialResponse.Verify
    respIn,     \* the dial response last received, as received
    resp,       \* the caller's copy of that response after Verify returned
    rerr,       \* what Verify returned for it
    \* ---- transport manager
    mgrDone,    \* Manager.doneChan is closed
    transports, \* Manager.transports: transport ID -> managed transport
    mts,        \* every ManagedTransport made so far, in order of creation
    wk,         \* the manageTransport goroutine of each managed transport
    cr,         \* the createTransport and acceptTransport calls in progress
    del,        \* the DeleteTransport call of each worker
    trChan,     \* number of managed transports queued in Manager.TrChan
    statuses,   \* every Status sent to the discovery client
    mc,         \* where Manager.Close stands, the statuses it collected, the
                \* transports that were in the table when it took the lock,
                \* its UpdateStatuses calls and the factories it closed
    nErrs,      \* number of transport errors delivered to workers so far
    mgrCrashed, \* the process panicked
    \* ---- stream send window
    sendStream, \* the stream: where it stands, its sendWindow and its lastAckOffset
    sendWrite,  \* the chunk Write is emitting, and where Write stands
    nFrames,   \* number of chunks and ACK frames handled so far
    \* ---- callers registering listeners with the port manager
    lsPC,       \* where each caller registering a listener stands: the port it checked and its listener
    lsFirst,   \* the first listener added for each port
    \* ---- transport manager: TrChan and the calls publishing on it
    pubTable,   \* the managed transports inserted into Manager.transports
    pubChan,    \* the managed transports queued in Manager.TrChan, oldest first
    pubPC,      \* where each createTransport or acceptTransport call stands, and its managed transport
    pubWorkers, \* the managed transports whose worker was spawned
    pubMade,    \* number of managed transports made so far
    pubReads,  \* number of managed transports a consumer has read from TrChan
    \* ---- transport manager: the start-up of Serve
    dn,         \* where the start-up of Serve stands: its phase, the entries left to reconnect, its index in DefaultNodes and the transport it is creating
    dnNodes,    \* Manager.config.DefaultNodes
    dnTable,    \* Manager.transports, each transport with its ID and its edges
    dnClosing,  \* Manager.doneChan is closed
    dnDials,   \* the CreateTransport calls of createDefaultTransports, with their results
    \* ---- transport manager: Serve and its accept loops
    sv,         \* where Manager.Serve stands, and the transports its start-up has yet to create
    svChan,     \* number of managed transports queued in Manager.TrChan
    svLoops,    \* the accept loop of each factory: where it stands and the error it exited with
    svAccepted, \* the factories whose accepted transport is in Manager.transports
    svCtxDone,  \* the context passed to Serve is done
    svDoneChan, \* Manager.doneChan is closed
    \* ---- Delete
    dlTable,    \* the transports table DeleteTransport works on
    dlCloses,   \* the number of Close calls each managed transport received
    dlCall,     \* where each DeleteTransport call stands, its id and the transport it took
    dlStatuses, \* the statuses sent to discovery by DeleteTransport
    dlDone,     \* the id and transport of every DeleteTransport call that returned
    dlCrashed, \* the process panicked in DeleteTransport
    \* ---- Raw
    rawTrs,     \* every Transport a factory returned: its edges, whether it was closed or installed, and the error its call returned
    rawCall,    \* where createTransport and acceptTransport stand, and the transport each holds
    rawClosing  \* doneChan is closed

frameVars == <<conn, connEOF, sent, rd, want, ackIn, ackOut>>
portVars  == <<listeners, pmPC, pmPort, pmRet, pmRetried, pmCrashed>>
idVars    == <<idPC, idInitiator, idBytes, idRet, idIsInit>>
dialVars  == <<lastTS, accepted, reqIn, req, verr>>
respVars  == <<respArgs, respIn, resp, rerr>>
mgrVars   == <<mgrDone, transports, mts, wk, cr, del, trChan, statuses,
               mc, nErrs, mgrCrashed>>
winVars == <<sendStream, sendWrite, nFrames>>
listenVars == <<lsPC, lsFirst>>
pubVars == <<pubTable, pubChan, pubPC, pubWorkers, pubMade, pubReads>>
defaultsVars == <<dn, dnNodes, dnTable, dnClosing, dnDials>>
serveVars == <<sv, svChan, svLoops, svAccepted, svCtxDone, svDoneChan>>
deleteVars == <<dlTable, dlCloses, dlCall, dlStatuses, dlDone, dlCrashed>>
rawVars == <<rawTrs, rawCall, rawClosing>>

\* the variables of the other components
notFrame == <<portVars, idVars, dialVars, respVars, mgrVars, winVars, listenVars, pubVars, defaultsVars, serveVars, deleteVars, rawVars>>
notPort == <<frameVars, idVars, dialVars, respVars, mgrVars, winVars, listenVars, pubVars, defaultsVars, serveVars, deleteVars, rawVars>>
notID == <<frameVars, portVars, dialVars, respVars, mgrVars, winVars, listenVars, pubVars, defaultsVars, serveVars, deleteVars, rawVars>>
notDial == <<frameVars, portVars, idVars, respVars, mgrVars, winVars, listenVars, pubVars, defaultsVars, serveVars, deleteVars, rawVars>>
notResp == <<frameVars, portVars, idVars, dialVars, mgrVars, winVars, listenVars, pubVars, defaultsVars, serveVars, deleteVars, rawVars>>
notMgr == <<frameVars, portVars, idVars, dialVars, respVars, winVars, listenVars, pubVars, defaultsVars, serveVars, deleteVars, rawVars>>
notWin == <<frameVars, portVars, idVars, dialVars, respVars, mgrVars, listenVars, pubVars, defaultsVars, serveVars, deleteVars, rawVars>>
\* the listen callers work on the port manager's listeners
notListen == <<frameVars, idVars, dialVars, respVars, mgrVars, winVars, pubVars, defaultsVars, serveVars, deleteVars, rawVars>>
notPub == <<frameVars, portVars, idVars, dialVars, respVars, mgrVars, winVars, listenVars, defaultsVars, serveVars, deleteVars, rawVars>>
notDefaults == <<frameVars, portVars, idVars, dialVars, respVars, mgrVars, winVars, listenVars, pubVars, serveVars, deleteVars, rawVars>>
notServe == <<frameVars, portVars, idVars, dialVars, respVars, mgrVars, winVars, listenVars, pubVars, defaultsVars, deleteVars, rawVars>>
notDelete == <<frameVars, portVars, idVars, dialVars, respVars, mgrVars, winVars, listenVars, pubVars, defaultsVars, serveVars, rawVars>>
notRaw == <<frameVars, portVars, idVars, dialVars, respVars, mgrVars, winVars, listenVars, pubVars, defaultsVars, serveVars, deleteVars>>

\* no readFrame result, no frame wanted, no disassembleAckPayload result, no offset
NoRead == [err |-> "none"]
NoWant == [ft |-> -1]
NoAck  == [err |-> "none"]
NoOffset == -1

-----------------------------------------------------------------------------
(* Integer widths *)

Byte(x)   == x % 256
Uint16(x) == x % 65536

\* binary.BigEndian.PutUint16(b, v): b[0] = byte(v >> 8), b[1] = byte(v)
BigEndianPutUint16(v) == <<Byte(v \div 256), Byte(v)>>

\* binary.BigEndian.Uint16(b): uint16(b[1]) | uint16(b[0])<<8
BigEndianUint16(b) == b[1] * 256 + b[2]

-----------------------------------------------------------------------------
(* Frame codec, types.go *)

maxFwdPayLen == 65535
headerLen    == 5

OkType      == 0
RequestType == 1
AcceptType  == 2
CloseType   == 3
FwdType     == 10
AckType     == 11

\* MakeFrame writing chID with the low byte first
MakeFrameIDLowFirst(ft, chID, pay) ==
    LET hdr == <<Byte(ft), Byte(chID), Byte(chID \div 256)>>
                   \o <<Byte(Uint16(Len(pay)) \div 256), Byte(Len(pay))>>
    IN  [i \in 1..(5 + Len(pay)) |-> IF i <= 5 THEN hdr[i] ELSE pay[i - 5]]

\* MakeFrame: a frame of headerLen+len(pay) bytes, header filled in, payload copied
MakeFrame(ft, chID, pay) ==
    LET hdr == <<Byte(ft)>> \o BigEndianPutUint16(chID)
                            \o BigEndianPutUint16(Uint16(Len(pay)))
    IN  [i \in 1..(headerLen + Len(pay)) |->
            IF i <= headerLen THEN hdr[i] ELSE pay[i - headerLen]]

FrameType(f) == f[1]
FrameTpID(f) == BigEndianUint16(SubSeq(f, 2, 3))
\* PayLen reading the low byte only
FramePayLenLowByte(f) == f[5]

FramePayLen(f) == BigEndianUint16(SubSeq(f, 4, 5))
FramePay(f) == SubSeq(f, headerLen + 1, Len(f))

\* Frame.Disassemble
Disassemble(f) == [Type |-> FrameType(f), TpID |-> FrameTpID(f), Pay |-> FramePay(f)]

\* the zero disassembledFrame
ZeroDF == [Type |-> 0, TpID |-> 0, Pay |-> <<>>]

Zeros(n) == [i \in 1..n |-> 0]

Min(a, b) == IF a < b THEN a ELSE b

\* io.ReadFull(r, buf) with len(buf) = n on a source holding data and then ending:
\* n bytes and nil, or the bytes there are and EOF (none) / ErrUnexpectedEOF (some)
ReadFull(data, n) ==
    LET k == Min(n, Len(data))
    IN  [got  |-> SubSeq(data, 1, k) \o Zeros(n - k),
         n    |-> k,
         rest |-> SubSeq(data, k + 1, Len(data)),
         err  |-> IF k = n THEN "nil"
                  ELSE IF k = 0 THEN "EOF" ELSE "ErrUnexpectedEOF"]

\* readFrame: 5 header bytes, then PayLen payload bytes, then Disassemble
readFrame(data) ==
    LET h == ReadFull(data, headerLen)
    IN  IF h.err # "nil"
        THEN [f |-> h.got, df |-> ZeroDF, err |-> h.err, rest |-> h.rest,
              consumed |-> h.n]
        ELSE LET p == ReadFull(h.rest, FramePayLen(h.got))
                 f == h.got \o p.got
             IN  IF p.err # "nil"
                 THEN [f |-> f, df |-> ZeroDF, err |-> p.err, rest |-> p.rest,
                       consumed |-> h.n + p.n]
                 ELSE [f |-> f, df |-> Disassemble(f), err |-> "nil",
                       rest |-> p.rest, consumed |-> h.n + p.n]

\* bytes readFrame needs before it can return without blocking
FrameNeed(data) ==
    IF Len(data) < headerLen THEN headerLen
    ELSE headerLen + FramePayLen(data)

\* writeAckFrame's frame
AckFrame(id, offset) == MakeFrame(AckType, id, BigEndianPutUint16(offset))

\* disassembleAckPayload accepting any payload of at least 2 bytes
disassembleAckPayloadAtLeast2(p) ==
    IF Len(p) < 2
    THEN [offset |-> 0, err |-> "invalid ACK payload size"]
    ELSE [offset |-> p[1] * 256 + p[2], err |-> "nil"]

\* disassembleAckPayload
disassembleAckPayload(p) ==
    IF Len(p) # 2
    THEN [offset |-> 0, err |-> "invalid ACK payload size"]
    ELSE [offset |-> BigEndianUint16(p), err |-> "nil"]

-----------------------------------------------------------------------------
(* Inputs of the frame codec *)

MaxPayLen   == 1      \* longest enumerated payload
MaxInFlight == 2      \* frames written and not yet read

FrameTypes == {OkType, RequestType, AcceptType, CloseType, FwdType, AckType, 255}
StreamIDs  == {258, 65535}               \* 0x0102, 0xFFFF
PayBytes   == {65, 255}                  \* 0x41, 0xFF
Offsets    == {255, 48879}               \* 0x00FF, 0xBEEF
LongLens   == {255, 256}

SeqsUpTo(S, n) == UNION {[1..k -> S] : k \in 0..n}
LongPay(n) == [i \in 1..n |-> i % 251]
Payloads == SeqsUpTo(PayBytes, MaxPayLen) \cup {LongPay(n) : n \in LongLens}
\* payloads of FWD frames: the empty one, a short one and the longest one
FwdPayloads == {<<>>, <<65, 66, 67>>, LongPay(maxFwdPayLen)}

\* where the byte source may end inside n pending bytes
Cuts(n) == {k \in 0..n : k \in {0, 1, headerLen - 1, headerLen, n - 1, n}}

FrameInit ==
    /\ conn = <<>>
    /\ connEOF = FALSE
    /\ sent = <<>>
    /\ rd = NoRead
    /\ want = NoWant
    /\ ackIn = <<>>
    /\ ackOut = NoAck

\* writeFrame(w, MakeFrame(ft, id, pay)), on a drained connection with an idle reader
WriteFrame(ft, id, pay) ==
    /\ ~connEOF
    /\ sent = <<>> /\ rd = NoRead /\ want = NoWant
    /\ conn' = conn \o MakeFrame(ft, id, pay)
    /\ sent' = Append(sent, <<ft, id, pay>>)
    /\ ackIn' = Append(ackIn, NoOffset)
    /\ UNCHANGED <<connEOF, rd, want, ackOut>>
    /\ UNCHANGED notFrame

\* writeFwdFrame(w, id, p), on a drained connection with an idle reader
WriteFwdFrame(id, p) == WriteFrame(FwdType, id, p)

\* writeAckFrame(w, id, offset)
WriteAckFrame(id, offset) ==
    /\ ~connEOF
    /\ Len(sent) < MaxInFlight
    /\ conn' = conn \o AckFrame(id, offset)
    /\ sent' = Append(sent, <<AckType, id, BigEndianPutUint16(offset)>>)
    /\ ackIn' = Append(ackIn, offset)
    /\ UNCHANGED <<connEOF, rd, want, ackOut>>
    /\ UNCHANGED notFrame

\* the byte source ends after delivering only the first k pending bytes
CloseConn(k) ==
    /\ ~connEOF
    /\ connEOF' = TRUE
    /\ conn' = SubSeq(conn, 1, k)
    /\ UNCHANGED <<sent, rd, want, ackIn, ackOut>>
    /\ UNCHANGED notFrame

\* the reader's readFrame returns (it blocks while bytes are missing and may come)
ReadFrame ==
    /\ rd = NoRead /\ want = NoWant
    /\ sent # <<>>
    /\ connEOF \/ Len(conn) >= FrameNeed(conn)
    /\ LET r == readFrame(conn)
       IN  /\ rd' = [f |-> r.f, df |-> r.df, err |-> r.err, consumed |-> r.consumed,
                     before |-> Len(conn), after |-> Len(r.rest)]
           /\ conn' = r.rest
    /\ want' = [ft |-> Head(sent)[1], id |-> Head(sent)[2], pay |-> Head(sent)[3],
                offset |-> Head(ackIn)]
    /\ sent' = Tail(sent)
    /\ ackIn' = Tail(ackIn)
    /\ UNCHANGED <<connEOF, ackOut>>
    /\ UNCHANGED notFrame

\* the reader handles the frame it read: the payload of an ACK frame is disassembled
Dispatch ==
    /\ rd # NoRead
    /\ rd.err = "nil"
    /\ ackOut' = IF rd.df.Type = AckType THEN disassembleAckPayload(rd.df.Pay) ELSE NoAck
    /\ rd' = NoRead
    /\ UNCHANGED <<conn, connEOF, sent, want, ackIn>>
    /\ UNCHANGED notFrame

\* the reader is done with the frame and goes back to readFrame
ReaderLoop ==
    /\ rd = NoRead /\ want # NoWant
    /\ want' = NoWant
    /\ ackOut' = NoAck
    /\ UNCHANGED <<conn, connEOF, sent, rd, ackIn>>
    /\ UNCHANGED notFrame

FrameNext ==
    \/ \E ft \in FrameTypes, id \in StreamIDs, pay \in Payloads : WriteFrame(ft, id, pay)
    \/ \E id \in StreamIDs, p \in FwdPayloads : WriteFwdFrame(id, p)
    \/ \E id \in StreamIDs, offset \in Offsets : WriteAckFrame(id, offset)
    \/ \E k \in Cuts(Len(conn)) : CloseConn(k)
    \/ ReadFrame
    \/ Dispatch
    \/ ReaderLoop

-----------------------------------------------------------------------------
(* Port manager, port_manager.go *)

firstEphemeralPort == 49152
lastEphemeralPort  == 65535

NoPort     == 0 - 1
NoListener == "nil"

Callers      == {"c1", "c2"}
ListenerIDs  == {"l1", "l2"}
\* ports AddListener is called with: one below the ephemeral range, the first
\* two ports of the range and its last port
ListenPorts  == {80, 49152, 49153, 65534}

\* rand.Intn(n): some r with 0 <= r < n; the lowest two and the highest are drawn
Intn(n) == {r \in {0, 1, n - 1} : 0 <= r /\ r < n}

\* randomEphemeralPort drawing from lastEphemeralPort-firstEphemeralPort+1 numbers
randomEphemeralPortInclusive ==
    {Uint16(firstEphemeralPort + r) : r \in Intn(lastEphemeralPort - firstEphemeralPort + 1)}

\* randomEphemeralPort: the ports it can return
randomEphemeralPort ==
    {Uint16(firstEphemeralPort + r) : r \in Intn(lastEphemeralPort - firstEphemeralPort)}

\* Listener finding no port registered
ListenerNeverFound(port) == [l |-> NoListener, ok |-> FALSE]

\* PortManager.Listener
Listener(port) ==
    IF port \in DOMAIN listeners
    THEN [l |-> listeners[port], ok |-> TRUE]
    ELSE [l |-> NoListener, ok |-> FALSE]

\* newPortManager
PortInit ==
    /\ listeners = <<>>
    /\ pmPC = [c \in Callers |-> "idle"]
    /\ pmPort = [c \in Callers |-> NoPort]
    /\ pmRet = [c \in Callers |-> NoPort]
    /\ pmRetried = [c \in Callers |-> FALSE]
    /\ pmCrashed = FALSE

\* PortManager.AddListener, under the write lock
AddListener(l, port) ==
    /\ ~pmCrashed
    /\ listeners' = [q \in DOMAIN listeners \cup {port} |->
                        IF q = port THEN l ELSE listeners[q]]
    /\ UNCHANGED <<pmPC, pmPort, pmRet, pmRetried, pmCrashed>>
    /\ UNCHANGED notPort

\* a caller enters NextEmptyEphemeralPort
NextEmptyEphemeralPortCall(c) ==
    /\ ~pmCrashed
    /\ pmPC[c] = "idle"
    /\ pmPC' = [pmPC EXCEPT ![c] = "rand"]
    /\ pmRetried' = [pmRetried EXCEPT ![c] = FALSE]
    /\ UNCHANGED <<listeners, pmPort, pmRet, pmCrashed>>
    /\ UNCHANGED notPort

\* port := pm.randomEphemeralPort()
NextEmptyEphemeralPortDraw(c) ==
    /\ ~pmCrashed
    /\ pmPC[c] = "rand"
    /\ \E port \in randomEphemeralPort : pmPort' = [pmPort EXCEPT ![c] = port]
    /\ pmPC' = [pmPC EXCEPT ![c] = "lookup"]
    /\ UNCHANGED <<listeners, pmRet, pmRetried, pmCrashed>>
    /\ UNCHANGED notPort

\* pm.rand is shared and not locked: two callers inside it race on the source's
\* indices, and one of them may index out of range and panic
NextEmptyEphemeralPortPanic(c) ==
    /\ ~pmCrashed
    /\ pmPC[c] = "rand"
    /\ \E d \in Callers \ {c} : pmPC[d] = "rand"
    /\ pmCrashed' = TRUE
    /\ UNCHANGED <<listeners, pmPC, pmPort, pmRet, pmRetried>>
    /\ UNCHANGED notPort

\* if _, ok := pm.Listener(port); !ok { return port }, else draw again
NextEmptyEphemeralPortLookup(c) ==
    /\ ~pmCrashed
    /\ pmPC[c] = "lookup"
    /\ IF ~Listener(pmPort[c]).ok
       THEN /\ pmRet' = [pmRet EXCEPT ![c] = pmPort[c]]
            /\ pmPC' = [pmPC EXCEPT ![c] = "ret"]
            /\ UNCHANGED pmRetried
       ELSE /\ pmPC' = [pmPC EXCEPT ![c] = "rand"]
            /\ pmRetried' = [pmRetried EXCEPT ![c] = TRUE]
            /\ UNCHANGED pmRet
    /\ UNCHANGED <<listeners, pmPort, pmCrashed>>
    /\ UNCHANGED notPort

\* the caller takes the port and may call again
NextEmptyEphemeralPortDone(c) ==
    /\ ~pmCrashed
    /\ pmPC[c] = "ret"
    /\ pmPC' = [pmPC EXCEPT ![c] = "idle"]
    /\ pmPort' = [pmPort EXCEPT ![c] = NoPort]
    /\ pmRet' = [pmRet EXCEPT ![c] = NoPort]
    /\ pmRetried' = [pmRetried EXCEPT ![c] = FALSE]
    /\ UNCHANGED <<listeners, pmCrashed>>
    /\ UNCHANGED notPort

PortNext ==
    \/ \E l \in ListenerIDs, port \in ListenPorts : AddListener(l, port)
    \/ \E c \in Callers : NextEmptyEphemeralPortCall(c)
    \/ \E c \in Callers : NextEmptyEphemeralPortDraw(c)
    \/ \E c \in Callers : NextEmptyEphemeralPortPanic(c)
    \/ \E c \in Callers : NextEmptyEphemeralPortLookup(c)
    \/ \E c \in Callers : NextEmptyEphemeralPortDone(c)

-----------------------------------------------------------------------------
(* Stream id allocation, types.go *)

NoID == 0 - 1

\* bytes cipher.RandByte returns: the lowest, the highest and some between
RandByteValues == {0, 1, 2, 3, 127, 128, 254, 255}

\* isInitiatorID
isInitiatorID(tpID) == tpID % 2 = 0

\* randID's test passing every id of an initiator
randIDAcceptsAnyForInitiator(initiator, id) ==
    initiator \/ id % 2 # 0

\* randID's test: initiator && id%2 == 0 || !initiator && id%2 != 0
randIDAccepts(initiator, id) ==
    (initiator /\ id % 2 = 0) \/ (~initiator /\ id % 2 # 0)

IDInit ==
    /\ idPC = "idle"
    /\ idInitiator = FALSE
    /\ idBytes = <<>>
    /\ idRet = NoID
    /\ idIsInit = FALSE

\* randID(initiator) is called
RandIDCall(initiator) ==
    /\ idPC = "idle"
    /\ idPC' = "loop"
    /\ idInitiator' = initiator
    /\ idBytes' = <<>>
    /\ idRet' = NoID
    /\ idIsInit' = FALSE
    /\ UNCHANGED notID

\* one turn of randID's loop: draw two bytes, return the id if its parity fits
RandIDDraw(b) ==
    /\ idPC = "loop"
    /\ idBytes' = b
    /\ LET id == BigEndianUint16(b)
       IN  IF randIDAccepts(idInitiator, id)
           THEN idPC' = "ret" /\ idRet' = id
           ELSE idPC' = "loop" /\ idRet' = NoID
    /\ UNCHANGED <<idInitiator, idIsInit>>
    /\ UNCHANGED notID

\* the returned id is tested with isInitiatorID
RandIDCheck ==
    /\ idPC = "ret"
    /\ idPC' = "checked"
    /\ idIsInit' = isInitiatorID(idRet)
    /\ UNCHANGED <<idInitiator, idBytes, idRet>>
    /\ UNCHANGED notID

\* the caller is done with the id
RandIDDone ==
    /\ idPC = "checked"
    /\ idPC' = "idle"
    /\ idInitiator' = FALSE
    /\ idBytes' = <<>>
    /\ idRet' = NoID
    /\ idIsInit' = FALSE
    /\ UNCHANGED notID

IDNext ==
    \/ \E initiator \in BOOLEAN : RandIDCall(initiator)
    \/ \E b \in [1..2 -> RandByteValues] : RandIDDraw(b)
    \/ RandIDCheck
    \/ RandIDDone

-----------------------------------------------------------------------------
(* Keys, signatures and hashes: the cipher package and encodeGob *)

NullPK  == "null"
PubKeys == {"pkA", "pkB"}

\* the secret key of a public key, and back
SecKeyOf(pk) == <<"sk", pk>>
PubKeyOf(sk) == sk[2]

\* cipher.Sig{}
NullSig == [by |-> NullPK, over |-> <<>>]

\* cipher.SignPayload(b, sk): a signature only the key pair of sk verifies, for b only
SignPayload(b, sk) == [by |-> PubKeyOf(sk), over |-> b]

\* cipher.VerifyPubKeySignedPayload(pk, sig, b)
VerifyPubKeySignedPayload(pk, sig, b) ==
    IF pk # NullPK /\ sig.by = pk /\ sig.over = b THEN "nil" ELSE "invalid signature"

\* encodeGob: the bytes of a value, distinct for distinct values
encodeGob(v) == <<"gob", v>>

\* cipher.SumSHA256
SumSHA256(b) == <<"sha256", b>>

-----------------------------------------------------------------------------
(* Dial requests, types.go *)

ErrDialReqInvalidSig       == "ErrDialReqInvalidSig"
ErrDialReqInvalidTimestamp == "ErrDialReqInvalidTimestamp"
ErrDialReqInvalidSrcPK     == "ErrDialReqInvalidSrcPK"
ErrDialReqInvalidDstPK     == "ErrDialReqInvalidDstPK"
ErrDialReqInvalidSrcPort   == "ErrDialReqInvalidSrcPort"
ErrDialReqInvalidDstPort   == "ErrDialReqInvalidDstPort"

\* SessionDialRequest
SessionDialRequest(ts, srcPK, dstPK, sig) ==
    [kind |-> "session", Timestamp |-> ts, SrcPK |-> srcPK, DstPK |-> dstPK, Sig |-> sig]

\* StreamDialRequest
StreamDialRequest(ts, srcAddr, dstAddr, noise, sig) ==
    [kind |-> "stream", Timestamp |-> ts, SrcAddr |-> srcAddr, DstAddr |-> dstAddr,
     NoiseMsg |-> noise, Sig |-> sig]

Addr(pk, port) == [PK |-> pk, Port |-> port]

\* SessionDialRequest.Sign, StreamDialRequest.Sign, DialResponse.Sign
Sign(dr, sk) ==
    [dr EXCEPT !.Sig = SignPayload(encodeGob([dr EXCEPT !.Sig = NullSig]), sk)]

\* SessionDialRequest.Hash, StreamDialRequest.Hash
Hash(dr) == SumSHA256(encodeGob([dr EXCEPT !.Sig = NullSig]))

\* SessionDialRequest.Verify checking the signature before the timestamp
SessionDialRequestVerifySigFirst(dr, lastTimestamp) ==
    IF dr.SrcPK = NullPK THEN ErrDialReqInvalidSrcPK
    ELSE IF dr.DstPK = NullPK THEN ErrDialReqInvalidDstPK
    ELSE IF VerifyPubKeySignedPayload(dr.SrcPK, dr.Sig,
                encodeGob([dr EXCEPT !.Sig = NullSig])) # "nil"
         THEN ErrDialReqInvalidSig
    ELSE IF dr.Timestamp <= lastTimestamp THEN ErrDialReqInvalidTimestamp
    ELSE "nil"

\* SessionDialRequest.Verify: the error it returns
SessionDialRequestVerify(dr, lastTimestamp) ==
    IF dr.SrcPK = NullPK THEN ErrDialReqInvalidSrcPK
    ELSE IF dr.DstPK = NullPK THEN ErrDialReqInvalidDstPK
    ELSE IF dr.Timestamp <= lastTimestamp THEN ErrDialReqInvalidTimestamp
    ELSE LET sig == dr.Sig
             dr0 == [dr EXCEPT !.Sig = NullSig]
         IN  IF VerifyPubKeySignedPayload(dr.SrcPK, sig, encodeGob(dr0)) # "nil"
             THEN ErrDialReqInvalidSig
             ELSE "nil"

\* StreamDialRequest.Verify accepting a timestamp equal to the last one
StreamDialRequestVerifyAllowEqual(dr, lastTimestamp) ==
    IF dr.SrcAddr.PK = NullPK THEN ErrDialReqInvalidSrcPK
    ELSE IF dr.SrcAddr.Port = 0 THEN ErrDialReqInvalidSrcPort
    ELSE IF dr.DstAddr.PK = NullPK THEN ErrDialReqInvalidDstPK
    ELSE IF dr.DstAddr.Port = 0 THEN ErrDialReqInvalidDstPort
    ELSE IF dr.Timestamp < lastTimestamp THEN ErrDialReqInvalidTimestamp
    ELSE IF VerifyPubKeySignedPayload(dr.SrcAddr.PK, dr.Sig,
                encodeGob([dr EXCEPT !.Sig = NullSig])) # "nil"
         THEN ErrDialReqInvalidSig
    ELSE "nil"

\* StreamDialRequest.Verify: the error it returns
StreamDialRequestVerify(dr, lastTimestamp) ==
    IF dr.SrcAddr.PK = NullPK THEN ErrDialReqInvalidSrcPK
    ELSE IF dr.SrcAddr.Port = 0 THEN ErrDialReqInvalidSrcPort
    ELSE IF dr.DstAddr.PK = NullPK THEN ErrDialReqInvalidDstPK
    ELSE IF dr.DstAddr.Port = 0 THEN ErrDialReqInvalidDstPort
    ELSE IF dr.Timestamp <= lastTimestamp THEN ErrDialReqInvalidTimestamp
    ELSE LET sig == dr.Sig
             dr0 == [dr EXCEPT !.Sig = NullSig]
         IN  IF VerifyPubKeySignedPayload(dr.SrcAddr.PK, sig, encodeGob(dr0)) # "nil"
             THEN ErrDialReqInvalidSig
             ELSE "nil"

\* Verify has a pointer receiver: the caller's request has lost its signature
CallerCopyAfterPointerVerify(dr) == [dr EXCEPT !.Sig = NullSig]

\* Verify has a value receiver: it clears Sig in its own copy, the caller's
\* request is as it was
CallerCopyAfterVerify(dr) == dr

SrcPKOf(dr) == IF dr.kind = "session" THEN dr.SrcPK ELSE dr.SrcAddr.PK
DstPKOf(dr) == IF dr.kind = "session" THEN dr.DstPK ELSE dr.DstAddr.PK

Verify(dr, lastTimestamp) ==
    IF dr.kind = "session"
    THEN SessionDialRequestVerify(dr, lastTimestamp)
    ELSE StreamDialRequestVerify(dr, lastTimestamp)

-----------------------------------------------------------------------------
(* The responder of dial requests *)

MaxTimestamp == 2     \* highest Timestamp of a request

Timestamps == 0..MaxTimestamp
Ports      == {0, 1}
AllPKs     == PubKeys \cup {NullPK}

\* requests as they arrive, not yet signed
UnsignedRequests ==
    {SessionDialRequest(ts, src, dst, NullSig) :
        ts \in Timestamps, src \in AllPKs, dst \in AllPKs}
    \cup
    {StreamDialRequest(ts, Addr(src, sp), Addr(dst, dp), <<>>, NullSig) :
        ts \in Timestamps, src \in AllPKs, sp \in Ports, dst \in AllPKs, dp \in Ports}

\* the signatures a request may carry: none, one by either key pair over the
\* request, one by its source over the request with another Timestamp
Signatures(dr) ==
    {NullSig}
    \cup {Sign(dr, SecKeyOf(pk)).Sig : pk \in PubKeys}
    \cup {Sign([dr EXCEPT !.Timestamp = dr.Timestamp + 1],
               SecKeyOf(IF SrcPKOf(dr) = NullPK THEN "pkA" ELSE SrcPKOf(dr))).Sig}

Requests == UNION {{[dr EXCEPT !.Sig = sig] : sig \in Signatures(dr)} : dr \in UnsignedRequests}

NoReq == [kind |-> "none"]

\* the last Timestamp recorded for a source, 0 when there is none
LastTimestamp(pk) == IF pk \in DOMAIN lastTS THEN lastTS[pk] ELSE 0

DialInit ==
    /\ lastTS = [pk \in PubKeys |-> 0]
    /\ accepted = {}
    /\ reqIn = NoReq
    /\ req = NoReq
    /\ verr = "none"

\* the responder reads a dial request, verifies it against the last Timestamp of
\* its source and, when Verify returns nil, records its Timestamp
HandleDialRequest(dr) ==
    LET src == SrcPKOf(dr)
        err == Verify(dr, LastTimestamp(src))
    IN  /\ reqIn = NoReq
        /\ reqIn' = dr
        /\ req' = CallerCopyAfterVerify(dr)
        /\ verr' = err
        /\ IF err = "nil"
           THEN /\ lastTS' = [lastTS EXCEPT ![src] = dr.Timestamp]
                /\ accepted' = accepted \cup {<<src, dr.Timestamp>>}
           ELSE UNCHANGED <<lastTS, accepted>>
        /\ UNCHANGED notDial

\* the responder has answered and waits for the next dial request
DialRequestDone ==
    /\ reqIn # NoReq
    /\ reqIn' = NoReq
    /\ req' = NoReq
    /\ verr' = "none"
    /\ UNCHANGED <<lastTS, accepted>>
    /\ UNCHANGED notDial

DialNext ==
    \/ \E dr \in Requests : HandleDialRequest(dr)
    \/ DialRequestDone

-----------------------------------------------------------------------------
(* Dial responses, types.go *)

ErrDialRespInvalidSig  == "ErrDialRespInvalidSig"
ErrDialRespInvalidHash == "ErrDialRespInvalidHash"
ErrDialRespNotAccepted == "ErrDialRespNotAccepted"

\* error codes that stand for an error, and those sent that stand for none
KnownErrCodes == {1, 2}
ErrCodes      == KnownErrCodes \cup {0, 255}

\* ErrorFromCode: the error of a code and whether there is one
ErrorFromCode(code) ==
    IF code \in KnownErrCodes
    THEN [err |-> IF code = 1 THEN "error of code 1" ELSE "error of code 2", ok |-> TRUE]
    ELSE [err |-> "nil", ok |-> FALSE]

\* DialResponse
DialResponse(reqHash, isAccepted, errCode, noise, sig) ==
    [kind |-> "response", ReqHash |-> reqHash, Accepted |-> isAccepted,
     ErrCode |-> errCode, NoiseMsg |-> noise, Sig |-> sig]

\* DialResponse.Verify looking at Accepted before the signature
DialResponseVerifyAcceptedFirst(dr, reqDstPK, reqHash) ==
    IF dr.ReqHash # reqHash THEN ErrDialRespInvalidHash
    ELSE IF ~dr.Accepted
         THEN IF ~ErrorFromCode(dr.ErrCode).ok THEN ErrDialRespNotAccepted
              ELSE ErrorFromCode(dr.ErrCode).err
    ELSE IF VerifyPubKeySignedPayload(reqDstPK, dr.Sig,
                encodeGob([dr EXCEPT !.Sig = NullSig])) # "nil"
         THEN ErrDialRespInvalidSig
    ELSE "nil"

\* DialResponse.Verify: the error it returns
DialResponseVerify(dr, reqDstPK, reqHash) ==
    IF dr.ReqHash # reqHash THEN ErrDialRespInvalidHash
    ELSE LET sig == dr.Sig
             dr0 == [dr EXCEPT !.Sig = NullSig]
         IN  IF VerifyPubKeySignedPayload(reqDstPK, sig, encodeGob(dr0)) # "nil"
             THEN ErrDialRespInvalidSig
             ELSE IF ~dr.Accepted
                  THEN LET e == ErrorFromCode(dr.ErrCode)
                       IN  IF ~e.ok THEN ErrDialRespNotAccepted ELSE e.err
                  ELSE "nil"

-----------------------------------------------------------------------------
(* The initiator, reading the response to its dial request *)

\* hashes of two dial requests the initiator may have sent
RequestHashes ==
    {Hash(SessionDialRequest(1, "pkA", "pkB", NullSig)),
     Hash(StreamDialRequest(1, Addr("pkA", 1), Addr("pkB", 1), <<>>, NullSig))}

UnsignedResponses ==
    {DialResponse(h, a, c, <<>>, NullSig) :
        h \in RequestHashes, a \in BOOLEAN, c \in ErrCodes}

\* the signatures a response may carry: none, one by either key pair over the
\* response, one by pkB over the response with Accepted the other way
ResponseSignatures(dr) ==
    {NullSig}
    \cup {Sign(dr, SecKeyOf(pk)).Sig : pk \in PubKeys}
    \cup {Sign([dr EXCEPT !.Accepted = ~dr.Accepted], SecKeyOf("pkB")).Sig}

Responses ==
    UNION {{[dr EXCEPT !.Sig = sig] : sig \in ResponseSignatures(dr)} :
              dr \in UnsignedResponses}

NoArgs == [reqDstPK |-> NullPK, reqHash |-> <<>>]

RespInit ==
    /\ respArgs = NoArgs
    /\ respIn = NoReq
    /\ resp = NoReq
    /\ rerr = "none"

\* the initiator reads a dial response and verifies it against the destination
\* and the hash of its request
HandleDialResponse(dr, reqDstPK, reqHash) ==
    /\ respArgs' = [reqDstPK |-> reqDstPK, reqHash |-> reqHash]
    /\ respIn' = dr
    /\ resp' = CallerCopyAfterVerify(dr)
    /\ rerr' = DialResponseVerify(dr, reqDstPK, reqHash)
    /\ UNCHANGED notResp

RespNext ==
    \E dr \in Responses, reqDstPK \in AllPKs, reqHash \in RequestHashes :
        HandleDialResponse(dr, reqDstPK, reqHash)

-----------------------------------------------------------------------------
(* Transport manager: Manager, createTransport, acceptTransport,           *)
(* DeleteTransport, Close and the per-transport worker manageTransport.    *)
(* ManagedTransport, the factories and the settlement handshakes are not    *)
(* part of the manager's source file; they are modelled from section 4.7   *)
(* of the specification.  The read and write log cases of the worker's      *)
(* select change only LogEntry and are left out.                           *)

MaxTransports == 2      \* managed transports made in one run
MaxErrors == 2          \* transport errors delivered to workers in one run
TrChanCap == 9          \* make(chan *ManagedTransport, 9)

Remotes == {"pkB", "pkC"}
FactoryTypes == {"messaging"}
TpTypes == FactoryTypes \cup {"unknown"}
TransportIDs == Remotes \X FactoryTypes
Creators == {"create", "accept"}
NoTr == 0               \* a nil *ManagedTransport
Deleters == 1..MaxTransports   \* the workers, as callers of DeleteTransport

\* the Entry.ID the settlement handshake settles on: one per pair of edges
\* and transport type
EntryID(remote, tpType) == <<remote, tpType>>

DialArgs(factory, remote, public) ==
    [factory |-> factory, remote |-> remote, public |-> public]

NoDial == DialArgs("", "", FALSE)

newManagedTransport(id, tr, public, isAccepted) ==
    [ID |-> id, tr |-> tr, Public |-> public, Accepted |-> isAccepted,
     done |-> FALSE, closed |-> FALSE]

\* ManagedTransport.killWorker: closes the transport's doneChan
killWorker(ms, m) == [ms EXCEPT ![m].done = TRUE]

\* ManagedTransport.updateTransport: swaps the underlying transport
updateTransport(ms, m, tr) == [ms EXCEPT ![m].tr = tr]

\* ManagedTransport.isClosing: the transport's doneChan is closed
ManagedTransportIsClosing(m) == mts[m].done

\* ManagedTransport.Close on each transport of S: closes the underlying
\* transport and stops the worker
CloseManaged(ms, S) ==
    [i \in DOMAIN ms |->
        IF i \in S THEN [ms[i] EXCEPT !.done = TRUE, !.closed = TRUE]
        ELSE ms[i]]

\* Manager.Transport
Transport(id) == transports[id]

\* a status as it is reported to discovery
StatusUp(id, isUp) == [ID |-> id, IsUp |-> TRUE]

Status(id, isUp) == [ID |-> id, IsUp |-> isUp]

\* Manager.isClosing
isClosing == mgrDone

\* how a call of dialTransport can end
DialOutcomes ==
    IF isClosing THEN {"closing"} ELSE {"dialErr", "handshakeErr", "ok"}

\* how a call of acceptTransport can end before it installs the transport
AcceptOutcomes ==
    {"acceptErr"} \cup
    (IF isClosing THEN {"closingAfterAccept"}
     ELSE {"handshakeErr", "noRemote", "ok"})

IdleCall ==
    [pc |-> "idle", factory |-> "", remote |-> "", public |-> FALSE,
     isAccepted |-> FALSE, id |-> <<"", "">>, epublic |-> FALSE, m |-> 0]

IdleDelete == [pc |-> "idle", id |-> <<"", "">>, tr |-> NoTr]

NoWorker(orig) ==
    [pc |-> "none", factory |-> "", remote |-> "", public |-> FALSE,
     isAccepted |-> FALSE, orig |-> orig, round |-> "none", dials |-> 0,
     dels |-> 0, dialArgs |-> NoDial, dialRes |-> "", wasIn |-> FALSE,
     wasDown |-> FALSE]

\* calls that have settled on a transport and not yet installed it
Installing == {k \in Creators : cr[k].pc \in {"lookup", "insert"}}

\* another managed transport can still be made
Room == Len(mts) + Cardinality(Installing) < MaxTransports

MgrInit ==
    /\ mgrDone = FALSE
    /\ transports = [id \in TransportIDs |-> NoTr]
    /\ mts = <<>>
    /\ wk = <<>>
    /\ cr = [k \in Creators |-> IdleCall]
    /\ del = [d \in Deleters |-> IdleDelete]
    /\ trChan = 0
    /\ statuses = {}
    /\ mc = [pc |-> "idle", collected |-> {}, seen |-> {}, updates |-> 0,
             factories |-> {}]
    /\ nErrs = 0
    /\ mgrCrashed = FALSE

\* createTransport up to the return of dialTransport, when the factory is
\* known and dialTransport succeeds
CreateTransport(remote, tpType, public) ==
    /\ ~mgrCrashed
    /\ cr["create"].pc = "idle"
    /\ tpType \in FactoryTypes
    /\ "ok" \in DialOutcomes
    /\ Room
    /\ cr' = [cr EXCEPT !["create"] =
                [pc |-> "lookup", factory |-> tpType, remote |-> remote,
                 public |-> public, isAccepted |-> FALSE,
                 id |-> EntryID(remote, tpType), epublic |-> public,
                 m |-> 0]]
    /\ UNCHANGED <<mgrDone, transports, mts, wk, del, trChan, statuses, mc,
                   nErrs, mgrCrashed>>
    /\ UNCHANGED notMgr

\* createTransport returns an error: the factory is unknown or dialTransport
\* failed (a transport whose handshake failed is closed)
CreateTransportError(tpType, outcome) ==
    /\ ~mgrCrashed
    /\ cr["create"].pc = "idle"
    /\ IF tpType \notin FactoryTypes THEN outcome = "unknownType"
       ELSE outcome \in DialOutcomes \ {"ok"}
    /\ UNCHANGED mgrVars
    /\ UNCHANGED notMgr

\* acceptTransport up to the resolution of the remote, when all succeeds
AcceptTransport(factory, remote, epublic) ==
    /\ ~mgrCrashed
    /\ cr["accept"].pc = "idle"
    /\ "ok" \in AcceptOutcomes
    /\ Room
    /\ cr' = [cr EXCEPT !["accept"] =
                [pc |-> "lookup", factory |-> factory, remote |-> remote,
                 public |-> TRUE, isAccepted |-> TRUE,
                 id |-> EntryID(remote, factory), epublic |-> epublic,
                 m |-> 0]]
    /\ UNCHANGED <<mgrDone, transports, mts, wk, del, trChan, statuses, mc,
                   nErrs, mgrCrashed>>
    /\ UNCHANGED notMgr

\* acceptTransport returns an error
AcceptTransportError(outcome) ==
    /\ ~mgrCrashed
    /\ cr["accept"].pc = "idle"
    /\ outcome \in AcceptOutcomes \ {"ok"}
    /\ UNCHANGED mgrVars
    /\ UNCHANGED notMgr

\* oldTr := tm.Transport(entry.ID); if oldTr != nil { oldTr.killWorker() }
InstallLookup(k) ==
    /\ ~mgrCrashed
    /\ cr[k].pc = "lookup"
    /\ mts' = IF Transport(cr[k].id) # NoTr
              THEN killWorker(mts, Transport(cr[k].id)) ELSE mts
    /\ cr' = [cr EXCEPT ![k].pc = "insert"]
    /\ UNCHANGED <<mgrDone, transports, wk, del, trChan, statuses, mc,
                   nErrs, mgrCrashed>>
    /\ UNCHANGED notMgr

\* mTr := newManagedTransport(...); tm.transports[entry.ID] = mTr
InstallInsert(k) ==
    /\ ~mgrCrashed
    /\ cr[k].pc = "insert"
    /\ mts' = Append(mts, newManagedTransport(cr[k].id, 1,
                                              cr[k].epublic, cr[k].isAccepted))
    /\ wk' = Append(wk, NoWorker(IF cr[k].isAccepted THEN NoDial
                                 ELSE DialArgs(cr[k].factory, cr[k].remote,
                                               cr[k].public)))
    /\ transports' = [transports EXCEPT ![cr[k].id] = Len(mts) + 1]
    /\ cr' = [cr EXCEPT ![k].pc = "publish", ![k].m = Len(mts) + 1]
    /\ UNCHANGED <<mgrDone, del, trChan, statuses, mc, nErrs,
                   mgrCrashed>>
    /\ UNCHANGED notMgr

\* tm.TrChan <- mTr
InstallPublish(k) ==
    /\ ~mgrCrashed
    /\ cr[k].pc = "publish"
    /\ trChan < TrChanCap
    /\ trChan' = trChan + 1
    /\ cr' = [cr EXCEPT ![k].pc = "spawn"]
    /\ UNCHANGED <<mgrDone, transports, mts, wk, del, statuses, mc,
                   nErrs, mgrCrashed>>
    /\ UNCHANGED notMgr

\* the arguments createTransport and acceptTransport give the worker
WorkerArgs(c) == DialArgs(c.factory, c.remote, c.public)

\* go tm.manageTransport(ctx, mTr, factory, remote, public, accepted)
InstallSpawn(k) ==
    /\ ~mgrCrashed
    /\ cr[k].pc = "spawn"
    /\ wk' = [wk EXCEPT ![cr[k].m] =
                [@ EXCEPT !.pc = "select",
                          !.factory = WorkerArgs(cr[k]).factory,
                          !.remote = WorkerArgs(cr[k]).remote,
                          !.public = WorkerArgs(cr[k]).public,
                          !.isAccepted = cr[k].isAccepted]]
    /\ cr' = [cr EXCEPT ![k] = IdleCall]
    /\ UNCHANGED <<mgrDone, transports, mts, del, trChan, statuses, mc,
                   nErrs, mgrCrashed>>
    /\ UNCHANGED notMgr

\* what the worker does with an error it received from mTr.errChan
AfterErrorAlwaysDial(closing, isAccepted) ==
    IF closing THEN "skip" ELSE "dial"

AfterErrorIgnoreClosing(closing, isAccepted) ==
    IF isAccepted THEN "delete" ELSE "dial"

AfterError(closing, isAccepted) ==
    IF closing THEN "skip" ELSE IF isAccepted THEN "delete" ELSE "dial"

\* case <-mTr.doneChan: return
WorkerExit(m) ==
    /\ ~mgrCrashed
    /\ wk[m].pc = "select"
    /\ ManagedTransportIsClosing(m)
    /\ wk' = [wk EXCEPT ![m].pc = "exited"]
    /\ UNCHANGED <<mgrDone, transports, mts, cr, del, trChan, statuses,
                   mc, nErrs, mgrCrashed>>
    /\ UNCHANGED notMgr

\* case err := <-mTr.errChan: if !mTr.isClosing() { ... }
WorkerError(m) ==
    /\ ~mgrCrashed
    /\ wk[m].pc = "select"
    /\ nErrs < MaxErrors
    /\ nErrs' = nErrs + 1
    /\ LET next == AfterError(ManagedTransportIsClosing(m), wk[m].isAccepted)
       IN wk' = [wk EXCEPT ![m] =
                   [@ EXCEPT !.pc = IF next = "skip" THEN "select" ELSE next,
                             !.round = IF next = "skip" THEN "skipped"
                                       ELSE "handling",
                             !.dials = 0, !.dels = 0,
                             !.dialArgs = NoDial, !.dialRes = "",
                             !.wasIn = (Transport(mts[m].ID) = m),
                             !.wasDown = (Status(mts[m].ID, FALSE)
                                            \in statuses)]]
    /\ UNCHANGED <<mgrDone, transports, mts, cr, del, trChan, statuses,
                   mc, mgrCrashed>>
    /\ UNCHANGED notMgr

\* the worker after its call of dialTransport returned with outcome
AfterRedialDeleteAlways(outcome) == "delete"

AfterRedial(outcome) == IF outcome = "ok" THEN "select" ELSE "delete"

\* tr, _, err := tm.dialTransport(ctx, factory, remote, public): the call
\* and its isClosing check
WorkerRedialCall(m) ==
    /\ ~mgrCrashed
    /\ wk[m].pc = "dial"
    /\ wk' = [wk EXCEPT ![m] =
                [@ EXCEPT !.pc = IF isClosing THEN AfterRedial("closing")
                                 ELSE "dialing",
                          !.dials = @ + 1,
                          !.dialArgs = DialArgs(wk[m].factory, wk[m].remote,
                                                wk[m].public),
                          !.dialRes = IF isClosing THEN "closing" ELSE ""]]
    /\ UNCHANGED <<mgrDone, transports, mts, cr, del, trChan, statuses, mc,
                   nErrs, mgrCrashed>>
    /\ UNCHANGED notMgr

\* factory.Dial and the settlement handshake inside dialTransport, then
\* mTr.updateTransport(tr) when they succeeded
WorkerRedial(m, outcome) ==
    /\ ~mgrCrashed
    /\ wk[m].pc = "dialing"
    /\ outcome \in {"dialErr", "handshakeErr", "ok"}
    /\ mts' = IF outcome = "ok" THEN updateTransport(mts, m, mts[m].tr + 1)
              ELSE mts
    /\ wk' = [wk EXCEPT ![m] =
                [@ EXCEPT !.pc = AfterRedial(outcome),
                          !.round = IF AfterRedial(outcome) = "select"
                                    THEN "done" ELSE "handling",
                          !.dialRes = outcome]]
    /\ UNCHANGED <<mgrDone, transports, cr, del, trChan, statuses, mc, nErrs,
                   mgrCrashed>>
    /\ UNCHANGED notMgr

\* DeleteTransport under the lock: tr := tm.transports[id]; delete(...)
DeleteTransportLock(d, id) ==
    /\ del[d].pc = "idle"
    /\ del' = [del EXCEPT ![d] = [pc |-> "close1", id |-> id,
                                  tr |-> Transport(id)]]
    /\ transports' = [transports EXCEPT ![id] = NoTr]

\* the worker calls tm.DeleteTransport(mTr.ID)
WorkerDeleteTransport(m) ==
    /\ ~mgrCrashed
    /\ wk[m].pc = "delete"
    /\ DeleteTransportLock(m, mts[m].ID)
    /\ wk' = [wk EXCEPT ![m].pc = "deleting", ![m].dels = @ + 1]
    /\ UNCHANGED <<mgrDone, mts, cr, trChan, statuses, mc, nErrs,
                   mgrCrashed>>
    /\ UNCHANGED notMgr

\* tr.Close(), right after the lock is released
DeleteTransportClose(d) ==
    /\ ~mgrCrashed
    /\ del[d].pc = "close1"
    /\ del[d].tr # NoTr
    /\ mts' = CloseManaged(mts, {del[d].tr})
    /\ del' = [del EXCEPT ![d].pc = "status"]
    /\ UNCHANGED <<mgrDone, transports, wk, cr, trChan, statuses, mc, nErrs,
                   mgrCrashed>>
    /\ UNCHANGED notMgr

\* tr.Close() on a nil transport: Close either returns at once or
\* dereferences its receiver and panics
DeleteTransportCloseNil(d, panics) ==
    /\ ~mgrCrashed
    /\ del[d].pc = "close1"
    /\ del[d].tr = NoTr
    /\ mgrCrashed' = panics
    /\ del' = [del EXCEPT ![d].pc = "status"]
    /\ UNCHANGED <<mgrDone, transports, mts, wk, cr, trChan, statuses,
                   mc, nErrs>>
    /\ UNCHANGED notMgr

\* UpdateStatuses(&Status{ID: id, IsUp: false}), then
\* if tr != nil { return tr.Close() }; a worker then goes back to its select
DeleteTransportReturn(d) ==
    /\ ~mgrCrashed
    /\ del[d].pc = "status"
    /\ statuses' = statuses \cup {Status(del[d].id, FALSE)}
    /\ mts' = IF del[d].tr # NoTr THEN CloseManaged(mts, {del[d].tr}) ELSE mts
    /\ del' = [del EXCEPT ![d] = IdleDelete]
    /\ wk' = [wk EXCEPT ![d].pc = "select", ![d].round = "done"]
    /\ UNCHANGED <<mgrDone, transports, cr, trChan, mc, nErrs,
                   mgrCrashed>>
    /\ UNCHANGED notMgr

\* Manager.Close: close(tm.doneChan)
ManagerClose ==
    /\ ~mgrCrashed
    /\ mc.pc = "idle"
    /\ mgrDone' = TRUE
    /\ mc' = [mc EXCEPT !.pc = "lock"]
    /\ UNCHANGED <<transports, mts, wk, cr, del, trChan, statuses,
                   nErrs, mgrCrashed>>
    /\ UNCHANGED notMgr

\* the transports of the table
TableTransports ==
    {transports[id] : id \in {i \in TransportIDs : transports[i] # NoTr}}

\* the public transports of the table
PublicTransportsAll == TableTransports

PublicTransports ==
    {transports[id] : id \in {i \in TransportIDs :
        transports[i] # NoTr /\ mts[transports[i]].Public}}

\* Manager.Close under the lock: collect a status for, and close, every
\* public transport
ManagerCloseTransports ==
    /\ ~mgrCrashed
    /\ mc.pc = "lock"
    /\ mc' = [mc EXCEPT
                !.pc = "statuses",
                !.collected = {Status(mts[m].ID, FALSE) : m \in PublicTransports},
                !.seen = TableTransports]
    /\ mts' = CloseManaged(mts, PublicTransports)
    /\ UNCHANGED <<mgrDone, transports, wk, cr, del, trChan, statuses, nErrs,
                   mgrCrashed>>
    /\ UNCHANGED notMgr

\* DiscoveryClient.UpdateStatuses(ctx, batch...): the statuses discovery knows
\* after the call
UpdateStatusesDropped(known, batch) == known

UpdateStatuses(known, batch) == known \cup batch

\* Manager.Close: UpdateStatuses(statuses...), then go f.Close() for every
\* factory, and return
ManagerCloseStatuses ==
    /\ ~mgrCrashed
    /\ mc.pc = "statuses"
    /\ statuses' = UpdateStatuses(statuses, mc.collected)
    /\ mc' = [mc EXCEPT !.pc = "closed", !.updates = @ + 1,
                        !.factories = FactoryTypes]
    /\ UNCHANGED <<mgrDone, transports, mts, wk, cr, del, trChan, nErrs,
                   mgrCrashed>>
    /\ UNCHANGED notMgr

MgrNext ==
    \/ \E remote \in Remotes, tpType \in TpTypes, public \in BOOLEAN :
        CreateTransport(remote, tpType, public)
    \/ \E tpType \in TpTypes,
          outcome \in {"unknownType", "closing", "dialErr", "handshakeErr"} :
        CreateTransportError(tpType, outcome)
    \/ \E factory \in FactoryTypes, remote \in Remotes, epublic \in BOOLEAN :
        AcceptTransport(factory, remote, epublic)
    \/ \E outcome \in {"acceptErr", "closingAfterAccept", "handshakeErr",
                       "noRemote"} :
        AcceptTransportError(outcome)
    \/ \E k \in Creators : InstallLookup(k)
    \/ \E k \in Creators : InstallInsert(k)
    \/ \E k \in Creators : InstallPublish(k)
    \/ \E k \in Creators : InstallSpawn(k)
    \/ \E m \in DOMAIN wk : WorkerExit(m)
    \/ \E m \in DOMAIN wk : WorkerError(m)
    \/ \E m \in DOMAIN wk : WorkerRedialCall(m)
    \/ \E m \in DOMAIN wk, outcome \in {"dialErr", "handshakeErr", "ok"} :
        WorkerRedial(m, outcome)
    \/ \E m \in DOMAIN wk : WorkerDeleteTransport(m)
    \/ \E d \in Deleters : DeleteTransportClose(d)
    \/ \E d \in Deleters, panics \in BOOLEAN : DeleteTransportCloseNil(d, panics)
    \/ \E d \in Deleters : DeleteTransportReturn(d)
    \/ ManagerClose
    \/ ManagerCloseTransports
    \/ ManagerCloseStatuses

-----------------------------------------------------------------------------
(* Stream send window: spec 4.5; HandshakeData.Window, types.go *)

MaxFrames == 4

MaxInt32 == 2147483647
MinInt32 == -MaxInt32 - 1

\* int32 addition of a credit of at most 65535; it wraps around
AddInt32(a, delta) ==
    IF a > MaxInt32 - delta
    THEN MinInt32 + (delta - (MaxInt32 - a) - 1)
    ELSE a + delta

\* HandshakeData.Window values a peer advertises
Windows == {-1, 0, 1, 2, 65535, MaxInt32}

\* lengths of the chunks Write emits, at most maxFwdPayLen
ChunkLens == {0, 1, 2, maxFwdPayLen}

\* offsets carried by ACK frames
AckOffsets == {0, 1, 2, 65535}

NoStream == [pc |-> "handshake", sendWindow |-> 0, lastAckOffset |-> 0]
NoWrite  == [pc |-> "idle", len |-> 0, waited |-> FALSE]

WinInit ==
    /\ sendStream = NoStream
    /\ sendWrite = NoWrite
    /\ nFrames = 0

\* the credit does not cover the chunk
WriteBlockedNever(sendWindow, len) == FALSE

WriteBlocked(sendWindow, len) == sendWindow < len

\* delta = (offset - lastAckOffset) mod 2^16
AckDelta(offset, lastAckOffset) == Uint16(offset - lastAckOffset + 65536)

\* the handshake completes: sendWindow is the peer's advertised Window
StreamAccept(window) ==
    /\ sendStream.pc = "handshake"
    /\ sendStream' = [pc |-> "active", sendWindow |-> window, lastAckOffset |-> 0]
    /\ UNCHANGED <<sendWrite, nFrames>>
    /\ UNCHANGED notWin

\* Write takes its next chunk
WriteChunk(len) ==
    /\ sendStream.pc = "active"
    /\ sendWrite.pc \in {"idle", "emitted"}
    /\ nFrames < MaxFrames
    /\ sendWrite' = [pc |-> "waiting", len |-> len,
                 waited |-> WriteBlocked(sendStream.sendWindow, len)]
    /\ nFrames' = nFrames + 1
    /\ UNCHANGED sendStream
    /\ UNCHANGED notWin

\* the credit covers the chunk: sendWindow is decremented and FWD is emitted
WriteEmit ==
    /\ sendStream.pc = "active"
    /\ sendWrite.pc = "waiting"
    /\ ~WriteBlocked(sendStream.sendWindow, sendWrite.len)
    /\ sendStream' = [sendStream EXCEPT !.sendWindow = @ - sendWrite.len]
    /\ sendWrite' = [sendWrite EXCEPT !.pc = "emitted"]
    /\ UNCHANGED nFrames
    /\ UNCHANGED notWin

\* a waiting Write is cancelled by the close of the stream
WriteCancel ==
    /\ sendStream.pc = "closed"
    /\ sendWrite.pc = "waiting"
    /\ sendWrite' = [sendWrite EXCEPT !.pc = "cancelled"]
    /\ UNCHANGED <<sendStream, nFrames>>
    /\ UNCHANGED notWin

\* ACK(id, offset) arrives: sendWindow += delta
StreamAck(offset) ==
    /\ sendStream.pc = "active"
    /\ nFrames < MaxFrames
    /\ sendStream' = [sendStream EXCEPT
                    !.sendWindow = AddInt32(@, AckDelta(offset, sendStream.lastAckOffset)),
                    !.lastAckOffset = offset]
    /\ nFrames' = nFrames + 1
    /\ UNCHANGED sendWrite
    /\ UNCHANGED notWin

\* CLOSE is sent or received, or the session dies
StreamClose ==
    /\ sendStream.pc = "active"
    /\ sendStream' = [sendStream EXCEPT !.pc = "closed"]
    /\ UNCHANGED <<sendWrite, nFrames>>
    /\ UNCHANGED notWin

WinNext ==
    \/ \E window \in Windows : StreamAccept(window)
    \/ \E len \in ChunkLens : WriteChunk(len)
    \/ WriteEmit
    \/ WriteCancel
    \/ \E offset \in AckOffsets : StreamAck(offset)
    \/ StreamClose

-----------------------------------------------------------------------------
(* Callers registering listeners: Listener(port), then AddListener(l, port)
   when the port was reported absent; port_manager.go *)

MaxListens == 2

IdleListen == [pc |-> "idle", port |-> NoPort, n |-> 0, raced |-> FALSE]

ListenInit ==
    /\ lsPC = [c \in Callers |-> IdleListen]
    /\ lsFirst = <<>>

\* the listener a caller makes for its n-th registration
NewListener(c, n) == <<c, n>>

\* the caller calls pm.Listener(port) and goes on only if the port is absent
ListenCheck(c, port) ==
    /\ lsPC[c].pc = "idle"
    /\ lsPC[c].n < MaxListens
    /\ lsPC' = [lsPC EXCEPT ![c] =
                  IF Listener(port).ok
                  THEN [@ EXCEPT !.n = @ + 1]
                  ELSE [pc |-> "checked", port |-> port, n |-> @.n + 1,
                        raced |-> FALSE]]
    /\ UNCHANGED <<listeners, lsFirst>>
    /\ UNCHANGED <<pmPC, pmPort, pmRet, pmRetried, pmCrashed>>
    /\ UNCHANGED notListen

\* the caller calls pm.AddListener(l, port): pm.listeners[port] = l
ListenAdd(c) ==
    /\ lsPC[c].pc = "checked"
    /\ LET port == lsPC[c].port
           l == NewListener(c, lsPC[c].n)
       IN /\ listeners' = [q \in DOMAIN listeners \cup {port} |->
                              IF q = port THEN l ELSE listeners[q]]
          /\ lsFirst' = IF port \in DOMAIN lsFirst THEN lsFirst
                        ELSE [q \in DOMAIN lsFirst \cup {port} |->
                                 IF q = port THEN l ELSE lsFirst[q]]
          /\ lsPC' = [d \in Callers |->
                        IF d = c THEN [lsPC[c] EXCEPT !.pc = "idle"]
                        ELSE IF lsPC[d].pc = "checked" /\ lsPC[d].port = port
                        THEN [lsPC[d] EXCEPT !.raced = TRUE]
                        ELSE lsPC[d]]
    /\ UNCHANGED <<pmPC, pmPort, pmRet, pmRetried, pmCrashed>>
    /\ UNCHANGED notListen

ListenNext ==
    \/ \E c \in Callers, port \in ListenPorts : ListenCheck(c, port)
    \/ \E c \in Callers : ListenAdd(c)

-----------------------------------------------------------------------------
(* Transport manager: insert, publish on TrChan, spawn; createTransport and
   acceptTransport from newManagedTransport on, with a consumer of TrChan *)

MaxPublishes == 10

IdlePub == [pc |-> "idle", m |-> 0]

PubInit ==
    /\ pubTable = {}
    /\ pubChan = <<>>
    /\ pubPC = [k \in Creators |-> IdlePub]
    /\ pubWorkers = {}
    /\ pubMade = 0
    /\ pubReads = 0

\* a send on TrChan blocks while its buffer is full
TrChanFullNever(c) == FALSE

TrChanFull(c) == Len(c) >= TrChanCap

\* mTr := newManagedTransport(...), after the dial or accept and its handshake
PubNew(k) ==
    /\ pubPC[k].pc = "idle"
    /\ pubMade < MaxPublishes
    /\ pubMade' = pubMade + 1
    /\ pubPC' = [pubPC EXCEPT ![k] = [pc |-> "insert", m |-> pubMade + 1]]
    /\ UNCHANGED <<pubTable, pubChan, pubWorkers, pubReads>>
    /\ UNCHANGED notPub

\* tm.transports[entry.ID] = mTr, under the lock
PubInsert(k) ==
    /\ pubPC[k].pc = "insert"
    /\ pubTable' = pubTable \cup {pubPC[k].m}
    /\ pubPC' = [pubPC EXCEPT ![k].pc = "publish"]
    /\ UNCHANGED <<pubChan, pubWorkers, pubMade, pubReads>>
    /\ UNCHANGED notPub

\* tm.TrChan <- mTr
PubPublish(k) ==
    /\ pubPC[k].pc = "publish"
    /\ ~TrChanFull(pubChan)
    /\ pubChan' = Append(pubChan, pubPC[k].m)
    /\ pubPC' = [pubPC EXCEPT ![k].pc = "spawn"]
    /\ UNCHANGED <<pubTable, pubWorkers, pubMade, pubReads>>
    /\ UNCHANGED notPub

\* go tm.manageTransport(...); return mTr, nil
PubSpawn(k) ==
    /\ pubPC[k].pc = "spawn"
    /\ pubWorkers' = pubWorkers \cup {pubPC[k].m}
    /\ pubPC' = [pubPC EXCEPT ![k] = IdlePub]
    /\ UNCHANGED <<pubTable, pubChan, pubMade, pubReads>>
    /\ UNCHANGED notPub

\* a consumer receives from TrChan
TrChanRead ==
    /\ pubChan # <<>>
    /\ pubChan' = Tail(pubChan)
    /\ pubReads' = pubReads + 1
    /\ UNCHANGED <<pubTable, pubPC, pubWorkers, pubMade>>
    /\ UNCHANGED notPub

PubNext ==
    \/ \E k \in Creators : PubNew(k)
    \/ \E k \in Creators : PubInsert(k)
    \/ \E k \in Creators : PubPublish(k)
    \/ \E k \in Creators : PubSpawn(k)
    \/ TrChanRead

-----------------------------------------------------------------------------
(* Transport manager: the start-up of Serve, reconnectTransports and
   createDefaultTransports *)

MaxDefaults == 2

\* Manager.config.PubKey
LocalPK == "pkA"

\* the DefaultNodes a manager is configured with
RECURSIVE NodeLists(_)
NodeLists(n) ==
    IF n = 0 THEN {<<>>}
    ELSE NodeLists(n - 1) \cup
         {Append(s, pk) : s \in {t \in NodeLists(n - 1) : Len(t) = n - 1},
                          pk \in Remotes}

\* a transport of the table
TableEntry(remote, tpType, edges) ==
    [id |-> EntryID(remote, tpType), edges |-> edges]

\* the entries reconnectTransports finds in Manager.entries
ReconnectEntries == {TableEntry("pkB", "messaging", <<LocalPK, "pkB">>)}

\* the transports created or accepted before createDefaultTransports runs
EarlierTransports ==
    {TableEntry("pkC", "messaging", <<LocalPK, "pkC">>),
     TableEntry("pkB", "native", <<"pkB", LocalPK>>)}

\* tm.transports[entry.ID] = mTr
TableInsert(table, tr) == {x \in table : x.id # tr.id} \cup {tr}

\* Manager.Remote looking at the first edge only
RemoteFirstEdgeOnly(edges) ==
    IF LocalPK = edges[1] THEN [pk |-> edges[2], ok |-> TRUE]
    ELSE [pk |-> NullPK, ok |-> FALSE]

\* Manager.Remote
Remote(edges) ==
    IF LocalPK = edges[1] THEN [pk |-> edges[2], ok |-> TRUE]
    ELSE IF LocalPK = edges[2] THEN [pk |-> edges[1], ok |-> TRUE]
    ELSE [pk |-> NullPK, ok |-> FALSE]

NoCreate == [remote |-> NullPK, tpType |-> "", public |-> FALSE]
IdleDefaults == [pc |-> "idle", phase |-> "none", todo |-> {}, i |-> 0,
                 cur |-> NoCreate]

DefaultsInit ==
    /\ dn = IdleDefaults
    /\ dnNodes = <<>>
    /\ dnTable = {}
    /\ dnClosing = FALSE
    /\ dnDials = <<>>

\* Serve is called: tm.reconnectTransports(ctx) copies Manager.entries
DefaultsStart(nodes, entries, table) ==
    /\ dn.pc = "idle"
    /\ dn' = [dn EXCEPT !.pc = "reconnect", !.phase = "reconnect",
                        !.todo = entries]
    /\ dnNodes' = nodes
    /\ dnTable' = table
    /\ UNCHANGED <<dnClosing, dnDials>>
    /\ UNCHANGED notDefaults

\* reconnectTransports, one entry: skipped when its ID is in the table or its
\* edges do not hold the local key, else createTransport
ReconnectEntry(e) ==
    /\ dn.pc = "reconnect"
    /\ e \in dn.todo
    /\ dn' = IF (\E tr \in dnTable : tr.id = e.id) \/ ~Remote(e.edges).ok
             THEN [dn EXCEPT !.todo = @ \ {e}]
             ELSE [dn EXCEPT !.todo = @ \ {e}, !.pc = "create",
                             !.cur = [remote |-> Remote(e.edges).pk,
                                      tpType |-> e.id[2], public |-> TRUE]]
    /\ UNCHANGED <<dnNodes, dnTable, dnClosing, dnDials>>
    /\ UNCHANGED notDefaults

\* reconnectTransports returns; tm.createDefaultTransports(ctx) begins
ReconnectDone ==
    /\ dn.pc = "reconnect"
    /\ dn.todo = {}
    /\ dn' = [dn EXCEPT !.pc = "defaults", !.phase = "defaults", !.i = 1]
    /\ UNCHANGED <<dnNodes, dnTable, dnClosing, dnDials>>
    /\ UNCHANGED notDefaults

\* the walk of createDefaultTransports: a transport of the table has pk as
\* its remote edge
Exist(pk) ==
    \E tr \in dnTable : Remote(tr.edges).ok /\ Remote(tr.edges).pk = pk

\* createDefaultTransports, one key of DefaultNodes
DefaultNode ==
    /\ dn.pc = "defaults"
    /\ dn.i <= Len(dnNodes)
    /\ dn' = IF Exist(dnNodes[dn.i])
             THEN [dn EXCEPT !.i = @ + 1]
             ELSE [dn EXCEPT !.pc = "create",
                             !.cur = [remote |-> dnNodes[dn.i],
                                      tpType |-> "messaging",
                                      public |-> TRUE]]
    /\ UNCHANGED <<dnNodes, dnTable, dnClosing, dnDials>>
    /\ UNCHANGED notDefaults

\* where the start-up goes on once the createTransport of its phase is over
AfterCreate(s) ==
    IF s.phase = "defaults"
    THEN [s EXCEPT !.pc = "defaults", !.i = @ + 1, !.cur = NoCreate]
    ELSE [s EXCEPT !.pc = "reconnect", !.cur = NoCreate]

\* createTransport: an error (manager closing, dial or handshake failure) is
\* logged by the caller, which goes on; else the transport is inserted
DefaultsCreate(outcome) ==
    /\ dn.pc = "create"
    /\ dnClosing => outcome = "err"
    /\ dnDials' = IF dn.phase = "defaults"
                  THEN Append(dnDials, [pk |-> dn.cur.remote,
                                        tpType |-> dn.cur.tpType,
                                        public |-> dn.cur.public,
                                        res |-> outcome])
                  ELSE dnDials
    /\ dnTable' = IF outcome = "ok"
                  THEN TableInsert(dnTable,
                           TableEntry(dn.cur.remote, dn.cur.tpType,
                                      <<LocalPK, dn.cur.remote>>))
                  ELSE dnTable
    /\ dn' = AfterCreate(dn)
    /\ UNCHANGED <<dnNodes, dnClosing>>
    /\ UNCHANGED notDefaults

\* createDefaultTransports returns: Serve goes on to its accept loops
DefaultsDone ==
    /\ dn.pc = "defaults"
    /\ dn.i > Len(dnNodes)
    /\ dn' = [dn EXCEPT !.pc = "loops", !.phase = "loops"]
    /\ UNCHANGED <<dnNodes, dnTable, dnClosing, dnDials>>
    /\ UNCHANGED notDefaults

\* meanwhile the worker of a transport deletes it: DeleteTransport
DefaultsDeleteTransport(tr) ==
    /\ dn.pc \notin {"idle", "loops"}
    /\ tr \in dnTable
    /\ dnTable' = dnTable \ {tr}
    /\ UNCHANGED <<dn, dnNodes, dnClosing, dnDials>>
    /\ UNCHANGED notDefaults

\* meanwhile Manager.Close closes doneChan
DefaultsClose ==
    /\ dn.pc \notin {"idle", "loops"}
    /\ ~dnClosing
    /\ dnClosing' = TRUE
    /\ UNCHANGED <<dn, dnNodes, dnTable, dnDials>>
    /\ UNCHANGED notDefaults

DefaultsNext ==
    \/ \E nodes \in NodeLists(MaxDefaults), entries \in SUBSET ReconnectEntries,
          table \in SUBSET EarlierTransports :
              DefaultsStart(nodes, entries, table)
    \/ \E e \in ReconnectEntries : ReconnectEntry(e)
    \/ ReconnectDone
    \/ DefaultNode
    \/ \E outcome \in {"ok", "err"} : DefaultsCreate(outcome)
    \/ DefaultsDone
    \/ \E tr \in dnTable : DefaultsDeleteTransport(tr)
    \/ DefaultsClose

-----------------------------------------------------------------------------
(* Transport manager: Serve and its accept loops *)

MaxStartUp == 1

\* the factories Serve runs an accept loop for
ServeFactories == {"messaging", "native"}

\* strings.Contains(err.Error(), "closed"), on every error
ContainsClosedAlways(err) == TRUE

\* strings.Contains(err.Error(), "closed")
ContainsClosed(err) == err \in {"closedErr", "handshakeErrClosed"}

IdleServe == [pc |-> "idle", phase |-> "none", left |-> 0]
NoLoop == [pc |-> "none", err |-> "nil"]

ServeInit ==
    /\ sv = IdleServe
    /\ svChan = 0
    /\ svLoops = [f \in ServeFactories |-> NoLoop]
    /\ svAccepted = {}
    /\ svCtxDone = FALSE
    /\ svDoneChan = FALSE

\* Serve is called: tm.reconnectTransports(ctx); n transports are missing
\* from the table, for the entries and the default nodes together
ServeStart(n) ==
    /\ sv.pc = "idle"
    /\ sv' = [pc |-> "reconnect", phase |-> "reconnect", left |-> n]
    /\ UNCHANGED <<svChan, svLoops, svAccepted, svCtxDone, svDoneChan>>
    /\ UNCHANGED notServe

\* reconnectTransports or createDefaultTransports calls createTransport: an
\* error is logged and start-up goes on, else the transport is inserted and
\* is to be published
ServeCreate(outcome) ==
    /\ sv.pc \in {"reconnect", "defaults"}
    /\ sv.left > 0
    /\ svDoneChan => outcome = "err"
    /\ sv' = [sv EXCEPT !.left = @ - 1,
                        !.pc = IF outcome = "ok" THEN "publish" ELSE @]
    /\ UNCHANGED <<svChan, svLoops, svAccepted, svCtxDone, svDoneChan>>
    /\ UNCHANGED notServe

\* tm.TrChan <- mTr in createTransport, then the worker is spawned
ServePublish ==
    /\ sv.pc = "publish"
    /\ svChan < TrChanCap
    /\ svChan' = svChan + 1
    /\ sv' = [sv EXCEPT !.pc = sv.phase]
    /\ UNCHANGED <<svLoops, svAccepted, svCtxDone, svDoneChan>>
    /\ UNCHANGED notServe

\* reconnectTransports returns; tm.createDefaultTransports(ctx) begins
ServeDefaults ==
    /\ sv.pc = "reconnect"
    /\ sv' = [sv EXCEPT !.pc = "defaults", !.phase = "defaults"]
    /\ UNCHANGED <<svChan, svLoops, svAccepted, svCtxDone, svDoneChan>>
    /\ UNCHANGED notServe

\* createDefaultTransports returns; Serve starts one accept loop per factory
ServeLoops ==
    /\ sv.pc = "defaults"
    /\ sv' = [pc |-> "loops", phase |-> "loops", left |-> 0]
    /\ svLoops' = [f \in ServeFactories |-> [pc |-> "select", err |-> "nil"]]
    /\ UNCHANGED <<svChan, svAccepted, svCtxDone, svDoneChan>>
    /\ UNCHANGED notServe

\* the select of the accept loop: ctx.Done() or tm.doneChan when one is ready,
\* else the default case, acceptTransport
AcceptLoopSelect(f) ==
    /\ svLoops[f].pc = "select"
    /\ svLoops' = [svLoops EXCEPT ![f].pc =
                      IF svCtxDone \/ svDoneChan THEN "exited" ELSE "accept"]
    /\ UNCHANGED <<sv, svChan, svAccepted, svCtxDone, svDoneChan>>
    /\ UNCHANGED notServe

\* the loop after acceptTransport returned err: it returns, or logs the
\* error and goes back to its select
AfterAcceptError(err) ==
    IF ContainsClosed(err) THEN [pc |-> "exited", err |-> err]
    ELSE [pc |-> "select", err |-> "nil"]

\* factory.Accept(ctx) returns
AcceptLoopAccept(f, outcome) ==
    /\ svLoops[f].pc = "accept"
    /\ svLoops' = [svLoops EXCEPT ![f] =
                      IF outcome = "ok" THEN [pc |-> "settle", err |-> "nil"]
                      ELSE AfterAcceptError(outcome)]
    /\ UNCHANGED <<sv, svChan, svAccepted, svCtxDone, svDoneChan>>
    /\ UNCHANGED notServe

\* acceptTransport after the accept: the isClosing check, the responder
\* handshake, Remote(tr.Edges()) and the insert
AcceptLoopSettle(f, outcome) ==
    /\ svLoops[f].pc = "settle"
    /\ svDoneChan <=> outcome = "closing"
    /\ IF outcome = "ok"
       THEN /\ svAccepted' = svAccepted \cup {f}
            /\ svLoops' = [svLoops EXCEPT ![f].pc = "publish"]
       ELSE /\ svAccepted' = svAccepted
            /\ svLoops' = [svLoops EXCEPT ![f] = AfterAcceptError(outcome)]
    /\ UNCHANGED <<sv, svChan, svCtxDone, svDoneChan>>
    /\ UNCHANGED notServe

\* tm.TrChan <- mTr in acceptTransport, then the worker is spawned and the
\* loop goes back to its select
AcceptLoopPublish(f) ==
    /\ svLoops[f].pc = "publish"
    /\ svChan < TrChanCap
    /\ svChan' = svChan + 1
    /\ svLoops' = [svLoops EXCEPT ![f].pc = "select"]
    /\ UNCHANGED <<sv, svAccepted, svCtxDone, svDoneChan>>
    /\ UNCHANGED notServe

\* wg.Wait() returns once every accept loop has exited; Serve returns nil
ServeReturn ==
    /\ sv.pc = "loops"
    /\ \A f \in ServeFactories : svLoops[f].pc = "exited"
    /\ sv' = [sv EXCEPT !.pc = "returned"]
    /\ UNCHANGED <<svChan, svLoops, svAccepted, svCtxDone, svDoneChan>>
    /\ UNCHANGED notServe

\* Manager.Close closes doneChan
ServeClose ==
    /\ ~svDoneChan
    /\ svDoneChan' = TRUE
    /\ UNCHANGED <<sv, svChan, svLoops, svAccepted, svCtxDone>>
    /\ UNCHANGED notServe

\* the context passed to Serve is cancelled
ServeCancel ==
    /\ ~svCtxDone
    /\ svCtxDone' = TRUE
    /\ UNCHANGED <<sv, svChan, svLoops, svAccepted, svDoneChan>>
    /\ UNCHANGED notServe

\* a consumer receives from TrChan
ServeTrChanRead ==
    /\ svChan > 0
    /\ svChan' = svChan - 1
    /\ UNCHANGED <<sv, svLoops, svAccepted, svCtxDone, svDoneChan>>
    /\ UNCHANGED notServe

\* the worker of an accepted transport deletes it: DeleteTransport
ServeDeleteTransport(f) ==
    /\ f \in svAccepted
    /\ svAccepted' = svAccepted \ {f}
    /\ UNCHANGED <<sv, svChan, svLoops, svCtxDone, svDoneChan>>
    /\ UNCHANGED notServe

\* the steps of Serve itself, once it is called
ServeStep ==
    \/ \E outcome \in {"ok", "err"} : ServeCreate(outcome)
    \/ ServePublish
    \/ ServeDefaults
    \/ ServeLoops
    \/ ServeReturn

\* the steps of the accept loop of factory f
AcceptLoopStep(f) ==
    \/ AcceptLoopSelect(f)
    \/ \E outcome \in {"closedErr", "otherErr", "ok"} :
          AcceptLoopAccept(f, outcome)
    \/ \E outcome \in {"closing", "handshakeErr", "handshakeErrClosed",
                       "noRemote", "ok"} : AcceptLoopSettle(f, outcome)
    \/ AcceptLoopPublish(f)

ServeNext ==
    \/ \E n \in 0..MaxStartUp : ServeStart(n)
    \/ ServeStep
    \/ \E f \in ServeFactories : AcceptLoopStep(f)
    \/ ServeClose
    \/ ServeCancel
    \/ ServeTrChanRead
    \/ \E f \in ServeFactories : ServeDeleteTransport(f)

-----------------------------------------------------------------------------
(* Transport manager: DeleteTransport called by a worker and by a user, with
   the Close calls every managed transport receives *)

MaxInstalls == 2

DeleteCallers == {"user", "worker"}

IdleDeleteCall == [pc |-> "idle", id |-> <<"", "">>, tr |-> NoTr, first |-> "none"]

DeleteInit ==
    /\ dlTable = [id \in TransportIDs |-> NoTr]
    /\ dlCloses = <<>>
    /\ dlCall = [c \in DeleteCallers |-> IdleDeleteCall]
    /\ dlStatuses = {}
    /\ dlDone = {}
    /\ dlCrashed = FALSE

\* tm.transports[entry.ID] = mTr, with a managed transport just made
DeleteInstall(id) ==
    /\ ~dlCrashed
    /\ Len(dlCloses) < MaxInstalls
    /\ dlCloses' = Append(dlCloses, 0)
    /\ dlTable' = [dlTable EXCEPT ![id] = Len(dlCloses) + 1]
    /\ UNCHANGED <<dlCall, dlStatuses, dlDone, dlCrashed>>
    /\ UNCHANGED notDelete

\* tm.mu.Lock(); tr := tm.transports[id]; delete(tm.transports, id); Unlock()
DeleteLock(c, id) ==
    /\ ~dlCrashed
    /\ dlCall[c].pc = "idle"
    /\ dlCall' = [dlCall EXCEPT ![c] =
                    [pc |-> "close1", id |-> id, tr |-> dlTable[id],
                     first |-> "none"]]
    /\ dlTable' = [dlTable EXCEPT ![id] = NoTr]
    /\ UNCHANGED <<dlCloses, dlStatuses, dlDone, dlCrashed>>
    /\ UNCHANGED notDelete

\* tr.Close() with tr a managed transport
DeleteClose(c) ==
    /\ ~dlCrashed
    /\ dlCall[c].pc = "close1"
    /\ dlCall[c].tr # NoTr
    /\ dlCloses' = [dlCloses EXCEPT ![dlCall[c].tr] = @ + 1]
    /\ dlCall' = [dlCall EXCEPT ![c].pc = "status", ![c].first = "closed"]
    /\ UNCHANGED <<dlTable, dlStatuses, dlDone, dlCrashed>>
    /\ UNCHANGED notDelete

\* tr.Close() with tr nil: Close either returns at once or dereferences its
\* receiver and panics
DeleteCloseNil(c, panics) ==
    /\ ~dlCrashed
    /\ dlCall[c].pc = "close1"
    /\ dlCall[c].tr = NoTr
    /\ dlCrashed' = panics
    /\ dlCall' = [dlCall EXCEPT ![c].pc = "status", ![c].first = "nil"]
    /\ UNCHANGED <<dlTable, dlCloses, dlStatuses, dlDone>>
    /\ UNCHANGED notDelete

\* UpdateStatuses(ctx, &Status{ID: id, IsUp: false}); an error is only logged
DeleteStatus(c) ==
    /\ ~dlCrashed
    /\ dlCall[c].pc = "status"
    /\ dlStatuses' = dlStatuses \cup {Status(dlCall[c].id, FALSE)}
    /\ dlCall' = [dlCall EXCEPT ![c].pc = "guard"]
    /\ UNCHANGED <<dlTable, dlCloses, dlDone, dlCrashed>>
    /\ UNCHANGED notDelete

\* if tr != nil
NilGuardNever(tr) == FALSE

NilGuard(tr) == tr # NoTr

\* if tr != nil { return tr.Close() }; return nil
DeleteGuard(c) ==
    /\ ~dlCrashed
    /\ dlCall[c].pc = "guard"
    /\ dlCloses' = IF NilGuard(dlCall[c].tr)
                   THEN [dlCloses EXCEPT ![dlCall[c].tr] = @ + 1]
                   ELSE dlCloses
    /\ dlDone' = dlDone \cup {[id |-> dlCall[c].id, tr |-> dlCall[c].tr]}
    /\ dlCall' = [dlCall EXCEPT ![c] = IdleDeleteCall]
    /\ UNCHANGED <<dlTable, dlStatuses, dlCrashed>>
    /\ UNCHANGED notDelete

DeleteNext ==
    \/ \E id \in TransportIDs : DeleteInstall(id)
    \/ \E c \in DeleteCallers, id \in TransportIDs : DeleteLock(c, id)
    \/ \E c \in DeleteCallers : DeleteClose(c)
    \/ \E c \in DeleteCallers, panics \in BOOLEAN : DeleteCloseNil(c, panics)
    \/ \E c \in DeleteCallers : DeleteStatus(c)
    \/ \E c \in DeleteCallers : DeleteGuard(c)

-----------------------------------------------------------------------------
(* Transport manager: dialTransport and acceptTransport step by step, with
   every Transport a factory returned and what became of it *)

MaxRaw == 3

RawCallers == {"create", "accept"}

\* the edges of the transports factory.Accept returns
AcceptEdges == {<<"pkB", LocalPK>>, <<LocalPK, "pkC">>, <<"pkB", "pkC">>}

IdleRaw == [pc |-> "idle", tr |-> NoTr, err |-> "none"]

\* a Transport as a factory returns it
RawTransport(by, edges) ==
    [by |-> by, edges |-> edges, closed |-> FALSE, installed |-> FALSE,
     err |-> "none"]

RawInit ==
    /\ rawTrs = <<>>
    /\ rawCall = [c \in RawCallers |-> IdleRaw]
    /\ rawClosing = FALSE

\* the call of c returns err; the transport it held is closed first when
\* closes says so
RawReturn(c, err, closes) ==
    /\ rawCall' = [rawCall EXCEPT ![c] = [pc |-> "idle", tr |-> NoTr,
                                          err |-> err]]
    /\ rawTrs' = IF rawCall[c].tr = NoTr THEN rawTrs
                 ELSE [rawTrs EXCEPT ![rawCall[c].tr] =
                          [@ EXCEPT !.closed = @ \/ closes, !.err = err]]

\* dialTransport: if tm.isClosing() { return nil, nil, errors.New(...) }
RawDialCheck ==
    /\ rawCall["create"].pc = "idle"
    /\ Len(rawTrs) < MaxRaw
    /\ IF rawClosing THEN RawReturn("create", "closing", FALSE)
       ELSE /\ rawCall' = [rawCall EXCEPT !["create"] =
                              [pc |-> "dial", tr |-> NoTr, err |-> "none"]]
            /\ UNCHANGED rawTrs
    /\ UNCHANGED rawClosing
    /\ UNCHANGED notRaw

\* tr, err := factory.Dial(ctx, remote); if err != nil { return nil, nil, err }
RawDial(remote, ok) ==
    /\ rawCall["create"].pc = "dial"
    /\ IF ok
       THEN /\ rawTrs' = Append(rawTrs, RawTransport("dial", <<LocalPK, remote>>))
            /\ rawCall' = [rawCall EXCEPT !["create"] =
                              [pc |-> "handshake", tr |-> Len(rawTrs) + 1,
                               err |-> "none"]]
       ELSE RawReturn("create", "dialErr", FALSE)
    /\ UNCHANGED rawClosing
    /\ UNCHANGED notRaw

\* the handshake failed: is tr.Close() called before the error is returned
CloseOnHandshakeErrorNever(c) == FALSE

CloseOnHandshakeError(c) == TRUE

\* entry, err := settlement...Handshake(...).Do(tm, tr, timeout);
\* if err != nil { tr.Close(); return ... }
RawHandshake(c, ok) ==
    /\ rawCall[c].pc = "handshake"
    /\ IF ok
       THEN /\ rawCall' = [rawCall EXCEPT ![c].pc =
                              IF c = "accept" THEN "remote" ELSE "install"]
            /\ UNCHANGED rawTrs
       ELSE RawReturn(c, "handshakeErr", CloseOnHandshakeError(c))
    /\ UNCHANGED rawClosing
    /\ UNCHANGED notRaw

\* tr, err := factory.Accept(ctx); if err != nil { return nil, err }
RawAccept(edges, ok) ==
    /\ rawCall["accept"].pc = "idle"
    /\ Len(rawTrs) < MaxRaw
    /\ IF ok
       THEN /\ rawTrs' = Append(rawTrs, RawTransport("accept", edges))
            /\ rawCall' = [rawCall EXCEPT !["accept"] =
                              [pc |-> "check", tr |-> Len(rawTrs) + 1,
                               err |-> "none"]]
       ELSE RawReturn("accept", "acceptErr", FALSE)
    /\ UNCHANGED rawClosing
    /\ UNCHANGED notRaw

\* acceptTransport: if tm.isClosing() { return nil, errors.New(...) }
RawAcceptCheck ==
    /\ rawCall["accept"].pc = "check"
    /\ IF rawClosing THEN RawReturn("accept", "closing", FALSE)
       ELSE /\ rawCall' = [rawCall EXCEPT !["accept"].pc = "handshake"]
            /\ UNCHANGED rawTrs
    /\ UNCHANGED rawClosing
    /\ UNCHANGED notRaw

\* remote, ok := tm.Remote(tr.Edges()); if !ok { return nil, errors.New(...) }
RawAcceptRemote ==
    /\ rawCall["accept"].pc = "remote"
    /\ IF Remote(rawTrs[rawCall["accept"].tr].edges).ok
       THEN /\ rawCall' = [rawCall EXCEPT !["accept"].pc = "install"]
            /\ UNCHANGED rawTrs
       ELSE RawReturn("accept", "noRemote", FALSE)
    /\ UNCHANGED rawClosing
    /\ UNCHANGED notRaw

\* mTr := newManagedTransport(entry.ID, tr, ...); tm.transports[entry.ID] = mTr
RawInstall(c) ==
    /\ rawCall[c].pc = "install"
    /\ rawTrs' = [rawTrs EXCEPT ![rawCall[c].tr].installed = TRUE]
    /\ rawCall' = [rawCall EXCEPT ![c] = [pc |-> "idle", tr |-> NoTr,
                                          err |-> "nil"]]
    /\ UNCHANGED rawClosing
    /\ UNCHANGED notRaw

\* Manager.Close: close(tm.doneChan)
RawClose ==
    /\ ~rawClosing
    /\ rawClosing' = TRUE
    /\ UNCHANGED <<rawTrs, rawCall>>
    /\ UNCHANGED notRaw

RawNext ==
    \/ RawDialCheck
    \/ \E remote \in Remotes, ok \in BOOLEAN : RawDial(remote, ok)
    \/ \E c \in RawCallers, ok \in BOOLEAN : RawHandshake(c, ok)
    \/ \E edges \in AcceptEdges, ok \in BOOLEAN : RawAccept(edges, ok)
    \/ RawAcceptCheck
    \/ RawAcceptRemote
    \/ \E c \in RawCallers : RawInstall(c)
    \/ RawClose

-----------------------------------------------------------------------------
(* Specifications: one per component, the other components idle *)

vars == <<frameVars, portVars, idVars, dialVars, respVars, mgrVars, winVars, listenVars, pubVars, defaultsVars, serveVars, deleteVars, rawVars>>

\* every component as it is constructed
Init ==
    /\ FrameInit
    /\ PortInit
    /\ IDInit
    /\ DialInit
    /\ RespInit
    /\ MgrInit
    /\ WinInit
    /\ ListenInit
    /\ PubInit
    /\ DefaultsInit
    /\ ServeInit
    /\ DeleteInit
    /\ RawInit

SpecFrame == Init /\ [][FrameNext]_vars

SpecPort == Init /\ [][PortNext]_vars

\* the loop of NextEmptyEphemeralPort in caller c
NextEmptyEphemeralPortStep(c) ==
    \/ NextEmptyEphemeralPortDraw(c)
    \/ NextEmptyEphemeralPortLookup(c)

\* caller c draws port
DrawsPort(c, port) ==
    NextEmptyEphemeralPortDraw(c) /\ pmPort'[c] = port

\* the port manager with every caller inside NextEmptyEphemeralPort kept
\* running by the scheduler, and a random source that yields every port of
\* the range again and again to a caller that keeps drawing
SpecPortFair ==
    SpecPort /\ \A c \in Callers :
                  /\ WF_vars(NextEmptyEphemeralPortStep(c))
                  /\ \A port \in randomEphemeralPort : SF_vars(DrawsPort(c, port))

SpecID == Init /\ [][IDNext]_vars

SpecDial == Init /\ [][DialNext]_vars

SpecResp == Init /\ [][RespNext]_vars

SpecMgr == Init /\ [][MgrNext]_vars

\* the steps of the DeleteTransport call of worker d; the worker is a
\* goroutine of its own, which the scheduler keeps running
DeleteStep(d) ==
    \/ d \in DOMAIN wk /\ WorkerDeleteTransport(d)
    \/ DeleteTransportClose(d)
    \/ \E panics \in BOOLEAN : DeleteTransportCloseNil(d, panics)
    \/ DeleteTransportReturn(d)

\* the manager with every worker's DeleteTransport call running to its end
SpecMgrFair == SpecMgr /\ \A d \in Deleters : WF_vars(DeleteStep(d))

SpecWin == Init /\ [][WinNext]_vars

SpecListen == Init /\ [][ListenNext]_vars

SpecPub == Init /\ [][PubNext]_vars

SpecDefaults == Init /\ [][DefaultsNext]_vars

SpecServe == Init /\ [][ServeNext]_vars

\* Serve and its accept loops are goroutines the scheduler keeps running, and
\* every pending factory.Accept returns; nothing makes a consumer read TrChan
SpecServeFair ==
    SpecServe /\ WF_vars(ServeStep)
              /\ \A f \in ServeFactories : WF_vars(AcceptLoopStep(f))

SpecDelete == Init /\ [][DeleteNext]_vars

SpecRaw == Init /\ [][RawNext]_vars

-----------------------------------------------------------------------------
(* Claims about the frame codec, checked under SpecFrame *)

RECURSIVE PendingStart(_)
\* index in conn before the first byte of the j-th pending frame
PendingStart(j) == IF j = 1 THEN 0 ELSE PendingStart(j - 1) + 5 + Len(sent[j - 1][3])

\* C1: a frame read without error is the frame that was written, type, id and
\* payload, and exactly 5 + len(payload) bytes were consumed; readFrame returns
\* an error and no frame exactly when the source ended before those bytes
FrameRoundTrip ==
    rd # NoRead =>
        /\ (rd.err = "nil") <=> (rd.before >= 5 + Len(want.pay))
        /\ rd.err = "nil" =>
              /\ rd.df = [Type |-> want.ft, TpID |-> want.id, Pay |-> want.pay]
              /\ rd.consumed = 5 + Len(want.pay)
              /\ rd.after = rd.before - (5 + Len(want.pay))
        /\ rd.err # "nil" => rd.df = ZeroDF

\* a frame with a payload of 256 bytes was read back, with an ACK frame behind it
FrameRoundTripWitness ==
    /\ rd # NoRead /\ rd.err = "nil"
    /\ Len(rd.df.Pay) = 256
    /\ rd.df.TpID = 258
    /\ rd.after = 7

\* a read failed on a payload cut short
FrameShortReadWitness ==
    /\ rd # NoRead /\ rd.err = "ErrUnexpectedEOF"
    /\ rd.before >= 5 /\ Len(want.pay) = 256

\* C2: while the source is open, the pending bytes are the pending frames in
\* order, each laid out as type, id (high byte, low byte), length (high byte,
\* low byte), payload; MakeFrame(0xA, 0x0102, "ABC") is 0A 01 02 00 03 41 42 43
WireLayout ==
    /\ ~connEOF =>
          /\ Len(conn) = PendingStart(Len(sent) + 1)
          /\ \A j \in 1..Len(sent) :
                LET o == PendingStart(j)
                    n == Len(sent[j][3])
                IN  /\ conn[o + 1] = sent[j][1]
                    /\ conn[o + 2] = sent[j][2] \div 256
                    /\ conn[o + 3] = sent[j][2] % 256
                    /\ conn[o + 4] = n \div 256
                    /\ conn[o + 5] = n % 256
                    /\ SubSeq(conn, o + 6, o + 5 + n) = sent[j][3]
    /\ (~connEOF /\ sent = << <<10, 258, <<65, 66, 67>> >> >>)
          => conn = <<10, 1, 2, 0, 3, 65, 66, 67>>

\* the frame of the example is on the wire
WireLayoutWitness ==
    /\ ~connEOF
    /\ sent = << <<10, 258, <<65, 66, 67>> >> >>
    /\ Len(conn) = 8

\* a frame with a payload of 256 bytes is on the wire, an ACK frame behind it
WireLayoutLongWitness ==
    /\ ~connEOF
    /\ Len(sent) = 2
    /\ Len(sent[1][3]) = 256
    /\ sent[1][2] = 65535

\* C9: a frame written by writeAckFrame(w, id, offset) is an ACK frame with the
\* two bytes of offset, high byte first, as its payload, and
\* disassembleAckPayload of that payload gives (offset, nil); of a payload
\* whose length is not 2 it gives (0, "invalid ACK payload size")
AckCodec ==
    /\ ~connEOF =>
          \A j \in 1..Len(sent) :
              ackIn[j] # NoOffset =>
                  SubSeq(conn, PendingStart(j) + 1, PendingStart(j) + 7)
                      = <<11, sent[j][2] \div 256, sent[j][2] % 256, 0, 2,
                          ackIn[j] \div 256, ackIn[j] % 256>>
    /\ (ackOut # NoAck /\ want.offset # NoOffset)
          => ackOut = [offset |-> want.offset, err |-> "nil"]
    /\ (ackOut # NoAck /\ Len(want.pay) # 2)
          => ackOut = [offset |-> 0, err |-> "invalid ACK payload size"]
    /\ (want # NoWant /\ rd = NoRead /\ want.ft = 11) => ackOut # NoAck

\* the ACK frame of writeAckFrame(w, id, 0xBEEF) was read and disassembled
AckCodecWitness ==
    /\ want # NoWant /\ want.offset = 48879
    /\ ackOut = [offset |-> 48879, err |-> "nil"]

\* an ACK frame with a payload of 1 byte was read and disassembled
AckCodecBadSizeWitness ==
    /\ want # NoWant /\ want.ft = 11 /\ Len(want.pay) = 1
    /\ ackOut # NoAck /\ ackOut.err # "nil"

-----------------------------------------------------------------------------
(* Claims about the port manager, checked under SpecPort *)

\* C3: listeners are never unregistered, and a port NextEmptyEphemeralPort
\* returns is not registered at the moment it is looked up; so a port whose
\* AddListener has completed is returned by no later call
PortUniqueness ==
    [][ /\ DOMAIN listeners \subseteq DOMAIN listeners'
        /\ \A c \in Callers :
              (pmPC[c] = "lookup" /\ pmPC'[c] = "ret") =>
                  /\ pmRet'[c] = pmPort[c]
                  /\ pmRet'[c] \notin DOMAIN listeners
        /\ \A c \in Callers :
              pmRet'[c] # pmRet[c] => (pmPC[c] = "lookup" \/ pmPC[c] = "ret") ]_vars

\* a call drew a registered port, drew again and returned 49153 with 49152
\* registered
PortUniquenessWitness ==
    \E c \in Callers :
        /\ pmPC[c] = "ret"
        /\ 49152 \in DOMAIN listeners
        /\ pmRetried[c]
        /\ pmRet[c] = 49153
        /\ 49153 \notin DOMAIN listeners

\* C4: every port randomEphemeralPort draws and NextEmptyEphemeralPort returns
\* is at least 49152 and below 65535
EphemeralRange ==
    \A c \in Callers :
        /\ pmPort[c] # NoPort => (49152 <= pmPort[c] /\ pmPort[c] < 65535)
        /\ pmRet[c] # NoPort => (49152 <= pmRet[c] /\ pmRet[c] < 65535)

\* the highest port of the range was returned
EphemeralRangeWitness ==
    \E c \in Callers : pmPC[c] = "ret" /\ pmRet[c] = 65534

-----------------------------------------------------------------------------
(* Claims about stream id allocation, checked under SpecID *)

\* C5: an id returned by randID(true) is even and one returned by
\* randID(false) is odd, and isInitiatorID of the id is randID's argument
IDParity ==
    /\ idRet # NoID =>
          /\ idInitiator => idRet % 2 = 0
          /\ ~idInitiator => idRet % 2 = 1
          /\ 0 <= idRet /\ idRet <= 65535
    /\ idPC \in {"ret", "checked"} => idRet # NoID
    /\ idPC = "checked" => (idIsInit <=> idInitiator)

\* randID(false) returned the odd id 0xFFFF, which isInitiatorID found to be a
\* responder's
IDParityWitness ==
    /\ idPC = "checked"
    /\ ~idInitiator
    /\ idRet = 65535
    /\ ~idIsInit

\* randID(true) returned the even id 0x0102
IDParityInitiatorWitness ==
    /\ idPC = "checked"
    /\ idInitiator
    /\ idRet = 258
    /\ idIsInit

-----------------------------------------------------------------------------
(* Claims about dial requests, checked under SpecDial *)

\* the request has non-null keys and, being a stream request, non-zero ports
AddressesValid(dr) ==
    /\ SrcPKOf(dr) # NullPK
    /\ DstPKOf(dr) # NullPK
    /\ dr.kind = "stream" => (dr.SrcAddr.Port # 0 /\ dr.DstAddr.Port # 0)

\* the signature of the request was made with the key pair of its source, over
\* the request
SignedBySource(dr) ==
    /\ SrcPKOf(dr) # NullPK
    /\ dr.Sig = [by |-> SrcPKOf(dr), over |-> <<"gob", [dr EXCEPT !.Sig = NullSig]>>]

\* C6 as stated: every request with Timestamp <= lastTimestamp is rejected with
\* ErrDialReqInvalidTimestamp
ReplayAlwaysTimestampError ==
    [][ (reqIn' # NoReq /\ reqIn'.Timestamp <= LastTimestamp(SrcPKOf(reqIn')))
            => verr' = ErrDialReqInvalidTimestamp ]_vars

\* C6, amended: every request with Timestamp <= lastTimestamp is rejected, with
\* ErrDialReqInvalidTimestamp when its keys are non-null and its ports non-zero;
\* the recorded lastTimestamp of a source changes only when a request of that
\* source is accepted, to the Timestamp of the request, which is higher; and no
\* two requests of one source with one Timestamp are accepted
ReplayPrevention ==
    [][ /\ (reqIn' # NoReq /\ reqIn'.Timestamp <= LastTimestamp(SrcPKOf(reqIn'))) =>
              /\ verr' # "nil"
              /\ AddressesValid(reqIn') => verr' = ErrDialReqInvalidTimestamp
        /\ \A pk \in PubKeys :
              /\ lastTS'[pk] >= lastTS[pk]
              /\ lastTS'[pk] # lastTS[pk] =>
                    /\ verr' = "nil"
                    /\ SrcPKOf(reqIn') = pk
                    /\ lastTS'[pk] = reqIn'.Timestamp
                    /\ lastTS'[pk] > lastTS[pk]
        /\ verr' = "nil" =>
              /\ <<SrcPKOf(reqIn'), reqIn'.Timestamp>> \notin accepted
              /\ lastTS'[SrcPKOf(reqIn')] = reqIn'.Timestamp ]_vars

\* a stream request that was accepted before, well signed, is received again
\* and rejected for its Timestamp
ReplayPreventionWitness ==
    /\ reqIn # NoReq /\ reqIn.kind = "stream"
    /\ SignedBySource(reqIn) /\ AddressesValid(reqIn)
    /\ <<SrcPKOf(reqIn), reqIn.Timestamp>> \in accepted
    /\ lastTS[SrcPKOf(reqIn)] = reqIn.Timestamp
    /\ verr = ErrDialReqInvalidTimestamp

\* C7: Verify returns the error of the first failing check, in the order null
\* SrcPK, (SrcPort = 0,) null DstPK, (DstPort = 0,) Timestamp <= lastTimestamp,
\* invalid signature; nil if and only if every check passes; and the caller's
\* request is unchanged
VerifyOutcome ==
    [][ reqIn' # NoReq =>
        LET dr == reqIn'
            stream == dr.kind = "stream"
            last == LastTimestamp(SrcPKOf(dr))
            srcNull == SrcPKOf(dr) = NullPK
            srcPort0 == stream /\ dr.SrcAddr.Port = 0
            dstNull == DstPKOf(dr) = NullPK
            dstPort0 == stream /\ dr.DstAddr.Port = 0
            old == dr.Timestamp <= last
        IN  /\ srcNull => verr' = ErrDialReqInvalidSrcPK
            /\ (~srcNull /\ srcPort0) => verr' = ErrDialReqInvalidSrcPort
            /\ (~srcNull /\ ~srcPort0 /\ dstNull) => verr' = ErrDialReqInvalidDstPK
            /\ (~srcNull /\ ~srcPort0 /\ ~dstNull /\ dstPort0)
                  => verr' = ErrDialReqInvalidDstPort
            /\ (AddressesValid(dr) /\ old) => verr' = ErrDialReqInvalidTimestamp
            /\ (AddressesValid(dr) /\ ~old /\ ~SignedBySource(dr))
                  => verr' = ErrDialReqInvalidSig
            /\ (verr' = "nil")
                  <=> (AddressesValid(dr) /\ ~old /\ SignedBySource(dr))
            /\ req' = dr ]_vars

\* a stream request with a newer Timestamp and a signature made by another key
\* pair was rejected for its signature, and the caller still holds that signature
VerifyOutcomeWitness ==
    /\ reqIn # NoReq /\ reqIn.kind = "stream"
    /\ AddressesValid(reqIn)
    /\ reqIn.Timestamp > lastTS[SrcPKOf(reqIn)]
    /\ reqIn.Sig # NullSig /\ reqIn.Sig.by # SrcPKOf(reqIn)
    /\ verr = ErrDialReqInvalidSig
    /\ req.Sig = reqIn.Sig

\* a session request with a null DstPK, an old Timestamp and no signature was
\* rejected for its DstPK
VerifyOutcomeOrderWitness ==
    /\ reqIn # NoReq /\ reqIn.kind = "session"
    /\ reqIn.SrcPK # NullPK /\ reqIn.DstPK = NullPK
    /\ reqIn.Timestamp <= lastTS[reqIn.SrcPK]
    /\ reqIn.Sig = NullSig
    /\ verr = ErrDialReqInvalidDstPK

\* a session request was accepted
VerifyOutcomeNilWitness ==
    /\ reqIn # NoReq /\ reqIn.kind = "session"
    /\ verr = "nil" /\ req = reqIn /\ req.Sig # NullSig

-----------------------------------------------------------------------------
(* Claims about dial responses, checked under SpecResp *)

\* the signature of the response was made with the key pair of pk, over the
\* response
SignedBy(dr, pk) ==
    /\ pk # NullPK
    /\ dr.Sig = [by |-> pk, over |-> <<"gob", [dr EXCEPT !.Sig = NullSig]>>]

\* C8: DialResponse.Verify returns ErrDialRespInvalidHash for another hash,
\* else ErrDialRespInvalidSig for a signature not valid under reqDstPK, else for
\* Accepted = false the error of ErrCode or ErrDialRespNotAccepted when the
\* code has none, else nil; a rejection with an invalid signature gives
\* ErrDialRespInvalidSig
ResponseOutcome ==
    respIn # NoReq =>
        LET hashOK == respIn.ReqHash = respArgs.reqHash
            sigOK == SignedBy(respIn, respArgs.reqDstPK)
        IN  /\ ~hashOK => rerr = ErrDialRespInvalidHash
            /\ (hashOK /\ ~sigOK) => rerr = ErrDialRespInvalidSig
            /\ (hashOK /\ sigOK /\ ~respIn.Accepted /\ respIn.ErrCode = 1)
                  => rerr = "error of code 1"
            /\ (hashOK /\ sigOK /\ ~respIn.Accepted /\ respIn.ErrCode = 2)
                  => rerr = "error of code 2"
            /\ (hashOK /\ sigOK /\ ~respIn.Accepted /\ respIn.ErrCode \notin {1, 2})
                  => rerr = ErrDialRespNotAccepted
            /\ (rerr = "nil") <=> (hashOK /\ sigOK /\ respIn.Accepted)
            /\ resp = respIn

\* a rejection carrying a known error code, with the hash of the request and a
\* signature made by another key pair than reqDstPK, gave ErrDialRespInvalidSig
ResponseOutcomeWitness ==
    /\ respIn # NoReq
    /\ respIn.ReqHash = respArgs.reqHash
    /\ ~respIn.Accepted /\ respIn.ErrCode = 1
    /\ respIn.Sig # NullSig /\ respIn.Sig.by # respArgs.reqDstPK
    /\ rerr = ErrDialRespInvalidSig

\* a well signed rejection gave the error of its code
ResponseOutcomeCodeWitness ==
    /\ respIn # NoReq /\ ~respIn.Accepted /\ respIn.ErrCode = 2
    /\ rerr = "error of code 2"

\* a well signed rejection with a code that has no error gave
\* ErrDialRespNotAccepted
ResponseOutcomeUnknownCodeWitness ==
    /\ respIn # NoReq /\ ~respIn.Accepted /\ respIn.ErrCode = 255
    /\ rerr = ErrDialRespNotAccepted

\* a well signed acceptance gave nil
ResponseOutcomeNilWitness ==
    /\ respIn # NoReq /\ respIn.Accepted /\ rerr = "nil"

-----------------------------------------------------------------------------
(* Claims about the transport manager, checked under SpecMgr *)

\* the worker of m has received an error while m was not closing
Reacting(m) == wk[m].round \in {"handling", "done"}

\* the worker of m is back at its select after reacting to an error
Reacted(m) == wk[m].round = "done"

\* C10: when the worker of a managed transport receives an error from the
\* transport and the transport is not closing, then if the transport was
\* accepted the worker calls DeleteTransport(its ID) once and never dials,
\* and if it was dialed the worker calls dialTransport exactly once, with the
\* remote, factory and public flag the transport was created with, and calls
\* DeleteTransport(its ID) exactly when that call failed.
RedialOrDelete ==
    \A m \in DOMAIN wk :
        /\ Reacting(m) /\ mts[m].Accepted =>
            /\ wk[m].dials = 0
            /\ wk[m].pc \in {"delete", "deleting", "select", "exited"}
            /\ wk[m].dels = IF wk[m].pc = "delete" THEN 0 ELSE 1
        /\ Reacting(m) /\ ~mts[m].Accepted =>
            /\ wk[m].dials = IF wk[m].pc = "dial" THEN 0 ELSE 1
            /\ wk[m].dials = 1 => wk[m].dialArgs = wk[m].orig
            /\ wk[m].dels = IF wk[m].pc \notin {"dial", "dialing", "delete"}
                                /\ wk[m].dialRes # "ok" THEN 1 ELSE 0
        /\ Reacting(m) /\ wk[m].pc = "deleting" => del[m].id = mts[m].ID
        /\ Reacted(m) => wk[m].pc \in {"select", "exited"}

\* an accepted transport was deleted by its worker and a dialed one was
\* re-dialed with success by its worker
RedialOrDeleteWitness ==
    /\ \E m \in DOMAIN wk :
        Reacted(m) /\ mts[m].Accepted /\ wk[m].dels = 1 /\ wk[m].dials = 0
    /\ \E m \in DOMAIN wk :
        /\ Reacted(m) /\ ~mts[m].Accepted /\ wk[m].dialRes = "ok"
        /\ wk[m].dials = 1 /\ wk[m].dels = 0

\* a dialed transport was deleted by its worker after the re-dial failed
RedialFailedWitness ==
    \E m \in DOMAIN wk :
        /\ Reacted(m) /\ ~mts[m].Accepted /\ wk[m].dialRes = "handshakeErr"
        /\ wk[m].dials = 1 /\ wk[m].dels = 1

\* a dialed transport was deleted by its worker because the manager was
\* closing when it re-dialed
RedialWhileClosingWitness ==
    \E m \in DOMAIN wk :
        /\ Reacted(m) /\ ~mts[m].Accepted /\ wk[m].dialRes = "closing"
        /\ wk[m].dels = 1

\* the worker of m is inside its re-dial
Redialing(m) == wk[m].pc \in {"dial", "dialing"}

\* the worker of m has re-dialed with success a transport that was in the
\* table when the error arrived
Reconnected(m) ==
    /\ Reacted(m) /\ ~mts[m].Accepted /\ wk[m].dialRes = "ok" /\ wk[m].wasIn

ReconnectReplacedWitness ==
    \E m \in DOMAIN wk :
        /\ Reconnected(m)
        /\ Transport(mts[m].ID) \notin {m, NoTr}

\* a re-dial succeeded while Manager.Close reported the transport down
ReconnectReportedDownWitness ==
    \E m \in DOMAIN wk :
        /\ Reconnected(m)
        /\ ~wk[m].wasDown
        /\ Transport(mts[m].ID) = m
        /\ Status(mts[m].ID, FALSE) \in statuses

\* the worker of m runs and has not been told to stop
LiveWorker(m) ==
    /\ wk[m].pc \notin {"none", "exited"}
    /\ ~ManagedTransportIsClosing(m)

\* C12: whenever createTransport or acceptTransport inserts a managed
\* transport under an ID that already maps to a managed transport, killWorker
\* has been called on the old one before the insert, and at most one live
\* worker exists per transport ID.
OldTransportKilledAlways ==
    /\ \A m1, m2 \in DOMAIN wk :
        LiveWorker(m1) /\ LiveWorker(m2) /\ mts[m1].ID = mts[m2].ID => m1 = m2
    /\ [][\A k \in Creators :
            /\ cr[k].pc = "insert" /\ cr'[k].pc = "publish"
            /\ Transport(cr[k].id) # NoTr
            => mts[Transport(cr[k].id)].done
         ]_vars

\* two concurrent calls settled on one Entry.ID, the later insert overwrote
\* the earlier wrapper without killing it, and both workers are live
OverwrittenAliveWitness ==
    \E m1, m2 \in DOMAIN wk :
        /\ m1 < m2
        /\ mts[m1].ID = mts[m2].ID
        /\ LiveWorker(m1) /\ LiveWorker(m2)
        /\ Transport(mts[m1].ID) = m2

\* Manager.Close has returned
ManagerClosed == mc.pc = "closed"

AboutToDelete(m) == m \in DOMAIN wk /\ wk[m].pc = "delete"

DeletedThenInstalledWitness ==
    \E m, n \in DOMAIN wk :
        /\ ~mts[m].Accepted /\ Reacted(m) /\ wk[m].dels = 1
        /\ n > m /\ mts[n].ID = mts[m].ID /\ transports[mts[m].ID] = n
        /\ ~wk[m].wasDown /\ Status(mts[m].ID, FALSE) \in statuses

\* a worker's DeleteTransport found its ID already removed and the Close on
\* the nil transport panicked before the status was sent
DeleteOfAbsentPanickedWitness ==
    /\ mgrCrashed
    /\ \E m \in DOMAIN wk :
        /\ wk[m].pc = "deleting" /\ del[m].tr = NoTr
        /\ Status(mts[m].ID, FALSE) \notin statuses

-----------------------------------------------------------------------------
(* Claims about the sendStream send window, checked under SpecWin *)

\* C15: the sendWindow starts at the advertised Window and stays a signed
\* 32-bit value; a write is unblocked only with a sendWindow that is not
\* negative once the chunk length is taken off it; a write whose chunk
\* exceeds the credit stays blocked until an ACK or the close of the stream.
WindowNonNegative ==
    /\ [](sendStream.sendWindow \in MinInt32..MaxInt32)
    /\ [][sendStream.pc = "handshake" /\ sendStream'.pc = "active" =>
            sendStream'.sendWindow \in Windows]_vars
    /\ [][sendWrite.pc = "waiting" /\ sendWrite'.pc = "emitted" =>
            /\ sendStream'.sendWindow >= 0
            /\ sendStream'.sendWindow = sendStream.sendWindow - sendWrite.len]_vars
    /\ [][sendWrite.pc = "waiting" /\ sendWrite.len > sendStream.sendWindow =>
            /\ sendWrite'.pc # "emitted"
            /\ sendWrite' # sendWrite => sendStream.pc = "closed"
            /\ sendStream'.sendWindow # sendStream.sendWindow =>
                   sendStream'.lastAckOffset \in AckOffsets /\ nFrames' = nFrames + 1
         ]_vars

\* a write that found too little credit was unblocked by an ACK whose offset
\* had wrapped around 2^16, and used up the credit
WindowNonNegativeWitness ==
    /\ sendWrite.pc = "emitted" /\ sendWrite.waited /\ sendWrite.len = 2
    /\ sendStream.sendWindow = 0
    /\ sendStream.lastAckOffset = 1
    /\ nFrames = 4

\* a write blocked on too little credit was cancelled by the close
WriteCancelledWitness ==
    /\ sendWrite.pc = "cancelled" /\ sendWrite.len > sendStream.sendWindow

\* the peer advertised a negative Window: a write of no bytes is blocked
NegativeWindowWitness ==
    /\ sendStream.pc = "active" /\ sendStream.sendWindow = -1
    /\ sendWrite.pc = "waiting" /\ sendWrite.len = 0

\* an ACK made the sendWindow wrap around to a negative value
WindowWrappedWitness ==
    /\ sendStream.pc = "active" /\ sendStream.sendWindow = MinInt32 /\ nFrames = 1

-----------------------------------------------------------------------------
(* Claims about callers registering listeners, checked under SpecListen *)

\* C20 as stated: when every caller calls Listener(port) first and
\* AddListener(l, port) only if the port was reported absent, no registered
\* listener is ever overwritten: each port maps to the first listener added
\* for it.
ListenerNeverOverwritten ==
    \A port \in DOMAIN listeners : listeners[port] = lsFirst[port]

\* what the prior check does ensure: a caller's AddListener overwrites a
\* registered listener only when another caller added a listener for the same
\* port between this caller's Listener check and its AddListener.
ListenerOverwrittenOnlyByRace ==
    [][\A port \in DOMAIN listeners :
          listeners'[port] # listeners[port] =>
              \E c \in Callers :
                  /\ lsPC[c].pc = "checked" /\ lsPC[c].port = port
                  /\ lsPC[c].raced
                  /\ lsPC'[c].pc = "idle"
                  /\ listeners'[port] = NewListener(c, lsPC[c].n)]_vars

\* two callers found the same port absent and both added: the port no longer
\* maps to the first listener added for it
ListenerOverwrittenWitness ==
    \E port \in DOMAIN listeners :
        /\ listeners[port] # lsFirst[port]
        /\ listeners[port][1] # lsFirst[port][1]

\* a caller found a port registered and did not add; the port maps to the
\* first listener added for it
ListenerKeptWitness ==
    \E c \in Callers, port \in DOMAIN listeners :
        /\ lsPC[c].pc = "idle" /\ lsPC[c].n = 1 /\ lsPC[c].port = NoPort
        /\ listeners[port] = lsFirst[port]
        /\ listeners[port][1] # c

\* in this step the worker of m receives an error from its transport
ReceivesError(m) ==
    /\ wk[m].pc = "select" /\ nErrs' = nErrs + 1
    /\ wk'[m].round \in {"skipped", "handling"}
    /\ wk'[m] # wk[m] \/ wk[m].round = "skipped"

\* C16 as stated: once Manager.Close has closed doneChan, a worker that
\* receives an error from its transport neither re-dials nor calls
\* DeleteTransport, whatever the transport.
NoReactionOnceManagerClosing ==
    [][\A m \in DOMAIN wk :
          isClosing /\ ReceivesError(m) => wk'[m].round = "skipped"]_vars

\* C16, amended: a worker that receives an error reacts exactly when its own
\* managed transport is not closing. Once Manager.Close has closed the public
\* transports of the table their workers skip every error; the worker of a
\* transport Close left open still reacts, and while the manager is closing
\* the dialTransport it calls returns before it reaches the factory.
NoReactionOnceTransportClosing ==
    /\ [][\A m \in DOMAIN wk :
            ReceivesError(m) =>
                (wk'[m].round = "skipped" <=> mts[m].done)]_vars
    /\ [][\A m \in DOMAIN wk :
            /\ mc.pc \in {"statuses", "closed"}
            /\ m \in mc.seen /\ mts[m].Public
            /\ ReceivesError(m)
            => wk'[m].round = "skipped" /\ wk'[m].pc = "select"]_vars
    /\ [][\A m \in DOMAIN wk :
            isClosing /\ wk[m].pc = "dial" /\ wk'[m].pc # "dial" =>
                wk'[m].pc = "delete" /\ wk'[m].dialRes = "closing"]_vars

\* Manager.Close had returned when the worker of a public transport received
\* an error, which it skipped
NoReactionOnceTransportClosingWitness ==
    \E m \in DOMAIN wk :
        /\ ManagerClosed /\ m \in mc.seen /\ mts[m].Public
        /\ wk[m].round = "skipped" /\ wk[m].pc = "select"
        /\ wk[m].wasDown

\* Manager.Close had returned when the worker of an accepted transport that
\* is not public received an error: it called DeleteTransport and the
\* transport was reported down
ReactionAfterManagerClosedWitness ==
    \E m \in DOMAIN wk :
        /\ ManagerClosed /\ m \in mc.seen /\ ~mts[m].Public /\ mts[m].Accepted
        /\ Reacted(m) /\ wk[m].dels = 1 /\ ~wk[m].wasDown
        /\ Status(mts[m].ID, FALSE) \in statuses

-----------------------------------------------------------------------------
(* Claims about TrChan, checked under SpecPub *)

\* the managed transports published on TrChan so far
Published == pubReads + Len(pubChan)

\* C18: createTransport and acceptTransport insert the managed transport into
\* the table, then publish it on TrChan, then spawn its worker. TrChan holds
\* at most 9 transports: a publish goes through while fewer than 9 are queued,
\* so with no reader the first 9 succeed; with 9 queued the call stays at the
\* publish, its transport in the table and no worker started for it, until a
\* consumer reads.
TrChanBackPressure ==
    /\ [](Len(pubChan) <= 9)
    /\ [](\A k \in Creators :
            /\ pubPC[k].pc = "publish" =>
                /\ pubPC[k].m \in pubTable
                /\ pubPC[k].m \notin pubWorkers
                /\ \A i \in DOMAIN pubChan : pubChan[i] # pubPC[k].m
                /\ Len(pubChan) < 9 => ENABLED PubPublish(k)
                /\ Len(pubChan) = 9 => ~ENABLED PubPublish(k)
            /\ pubPC[k].pc = "spawn" =>
                pubPC[k].m \in pubTable /\ pubPC[k].m \notin pubWorkers)
    /\ [](pubReads = 0 /\ Published < 9 =>
            \A k \in Creators : pubPC[k].pc = "publish" => ENABLED PubPublish(k))
    /\ [][\A k \in Creators :
            pubPC[k].pc = "publish" /\ Len(pubChan) = 9 =>
                pubPC'[k] = pubPC[k] /\ pubPC[k].m \notin pubWorkers']_vars
    /\ [](pubWorkers \subseteq pubTable)

\* nobody has read TrChan: nine managed transports are queued and the call
\* with the tenth stands at the publish, its transport in the table and
\* without a worker
TrChanBackPressureWitness ==
    /\ pubReads = 0 /\ Len(pubChan) = 9
    /\ \E k \in Creators :
        /\ pubPC[k].pc = "publish" /\ pubPC[k].m = 10
        /\ 10 \in pubTable /\ 10 \notin pubWorkers

\* after a consumer read one transport the tenth was published and its
\* worker spawned
TrChanUnblockedWitness ==
    /\ pubReads = 1 /\ Len(pubChan) = 9
    /\ 10 \in pubWorkers

-----------------------------------------------------------------------------
(* Claims about the start-up of Serve, checked under SpecDefaults *)

\* a transport of the table has the local key as one edge and pk as the other
HasTransportIn(table, pk) ==
    \E tr \in table :
        \/ tr.edges[1] = LocalPK /\ tr.edges[2] = pk
        \/ tr.edges[2] = LocalPK /\ tr.edges[1] = pk

\* a transport of the manager's table has pk as its remote edge
HasTransportTo(pk) == HasTransportIn(dnTable, pk)

\* C19: createDefaultTransports goes through DefaultNodes in order; for each
\* key it calls CreateTransport(key, "messaging", public) exactly when no
\* transport of the table has that key as its remote edge at that moment, so
\* a key that has a transport, also one created for an earlier occurrence of
\* the key, gets no dial; after a failed dial it goes on with the next key.
DefaultPeersDialed ==
    /\ [][dn.pc = "defaults" /\ dn.i <= Len(dnNodes) /\ dn' # dn =>
            IF HasTransportTo(dnNodes[dn.i])
            THEN dn'.pc = "defaults" /\ dn'.i = dn.i + 1 /\ dnDials' = dnDials
            ELSE /\ dn'.pc = "create" /\ dn'.i = dn.i
                 /\ dn'.cur = [remote |-> dnNodes[dn.i],
                               tpType |-> "messaging", public |-> TRUE]
         ]_vars
    /\ [][dn.pc = "create" /\ dn.phase = "defaults" /\ dn' # dn =>
            /\ dn'.pc = "defaults" /\ dn'.i = dn.i + 1
            /\ dnDials' = Append(dnDials, dnDials'[Len(dnDials')])
            /\ dnDials'[Len(dnDials')].pk = dnNodes[dn.i]
            /\ dnDials'[Len(dnDials')].res = "ok" =>
                   HasTransportIn(dnTable', dnNodes[dn.i])
         ]_vars
    /\ [](Len(dnDials) <= Len(dnNodes))
    /\ [](dn.pc = "loops" => dn.i = Len(dnNodes) + 1)

\* pkB is twice in DefaultNodes: the first occurrence was dialed, the second
\* found the transport and was not; start-up is over
DefaultPeersDialedWitness ==
    /\ dn.pc = "loops" /\ dnNodes = <<"pkB", "pkB">>
    /\ Len(dnDials) = 1 /\ dnDials[1].pk = "pkB" /\ dnDials[1].res = "ok"
    /\ dnDials[1].tpType = "messaging" /\ dnDials[1].public

\* the dial to the first default node failed and start-up went on to dial the
\* second
DefaultDialFailedWitness ==
    /\ dn.pc = "loops" /\ dnNodes = <<"pkB", "pkC">>
    /\ Len(dnDials) = 2 /\ dnDials[1].res = "err" /\ dnDials[2].res = "ok"

\* pkB has only an accepted transport, with the local key as its second
\* edge, and was not dialed
DefaultAcceptedPeerWitness ==
    /\ dn.pc = "loops" /\ dnNodes = <<"pkB">> /\ dnDials = <<>>
    /\ \A tr \in dnTable : tr.edges[1] # LocalPK
    /\ dnTable # {}

-----------------------------------------------------------------------------
(* Claims about Serve and its accept loops, checked under SpecServeFair *)

\* Serve has been called and has not returned
Serving == sv.pc \notin {"idle", "returned"}

\* Close was called or the context was cancelled
ServeStopping == svDoneChan \/ svCtxDone

\* a createTransport of the start-up or an acceptTransport of a loop stands at
\* its send on TrChan, whose buffer is full
BlockedOnTrChan ==
    /\ svChan = 9
    /\ sv.pc = "publish" \/ \E f \in ServeFactories : svLoops[f].pc = "publish"

\* C17 as stated, its last sentence: after Close or context cancellation
\* Serve eventually returns, provided every pending factory.Accept eventually
\* returns.
ServeEventuallyReturns ==
    (Serving /\ ServeStopping) ~> (sv.pc = "returned")

\* C17, amended: Serve runs reconnectTransports, then createDefaultTransports,
\* then one accept loop per factory, and returns only after every loop has
\* exited. A loop exits only at its select with ctx done or doneChan closed,
\* or on an error of acceptTransport that contains "closed"; after any other
\* error it is back at its select. After Close or context cancellation Serve
\* eventually returns, provided every pending factory.Accept eventually
\* returns, unless a createTransport or acceptTransport is left at its send
\* on a full TrChan.
ServeAcceptLoops ==
    /\ [][sv'.pc # sv.pc =>
            \/ sv.pc = "idle" /\ sv'.pc = "reconnect"
            \/ sv.pc = "reconnect" /\ sv'.pc \in {"publish", "defaults"}
            \/ sv.pc = "publish" /\ sv'.pc = sv.phase
            \/ sv.pc = "defaults" /\ sv'.pc \in {"publish", "loops"}
            \/ sv.pc = "loops" /\ sv'.pc = "returned"]_vars
    /\ [](\A f \in ServeFactories :
            /\ svLoops[f].pc # "none" <=> sv.pc \in {"loops", "returned"}
            /\ sv.pc = "returned" => svLoops[f].pc = "exited")
    /\ [][\A f \in ServeFactories :
            svLoops[f].pc # "exited" /\ svLoops'[f].pc = "exited" =>
                \/ /\ svLoops[f].pc = "select" /\ ServeStopping
                   /\ svLoops'[f].err = "nil"
                \/ /\ svLoops[f].pc \in {"accept", "settle"}
                   /\ svLoops'[f].err \in {"closedErr", "handshakeErrClosed"}
         ]_vars
    /\ [][\A f \in ServeFactories :
            svLoops[f].pc \in {"accept", "settle"} /\ svLoops'[f] # svLoops[f] =>
                svLoops'[f].pc \in {"select", "settle", "publish", "exited"}
         ]_vars
    /\ (Serving /\ ServeStopping) ~> (sv.pc = "returned" \/ BlockedOnTrChan)

\* Close was called while both loops were inside factory.Accept; one loop
\* left on an error containing "closed", the other at its select, and Serve
\* returned
ServeAcceptLoopsWitness ==
    /\ sv.pc = "returned" /\ svDoneChan /\ ~svCtxDone
    /\ svLoops["messaging"].err = "closedErr"
    /\ svLoops["native"].err = "nil"

\* nobody reads TrChan: Close was called, one loop has exited and the other
\* stands at its send on the full TrChan, so that Serve cannot return
ServeBlockedWitness ==
    /\ sv.pc = "loops" /\ svDoneChan /\ svChan = 9
    /\ svLoops["messaging"].pc = "exited"
    /\ svLoops["native"].pc = "publish"

-----------------------------------------------------------------------------
(* Claims about the termination of the port manager, checked under SpecPortFair *)

\* every port NextEmptyEphemeralPort can draw is registered
EveryPortRegistered == randomEphemeralPort \subseteq DOMAIN listeners

\* C21: every call of NextEmptyEphemeralPort eventually returns, whatever the
\* listeners map holds, unless the process has panicked
NextEmptyEphemeralPortReturns ==
    \A c \in Callers :
        (pmPC[c] \in {"rand", "lookup"}) ~> (pmPC[c] = "ret" \/ pmCrashed)

\* C21, what the loop does guarantee: a call returns unless every port of the
\* range has been registered (or the process has panicked)
NextEmptyEphemeralPortReturnsUnlessFull ==
    \A c \in Callers :
        (pmPC[c] \in {"rand", "lookup"})
            ~> (pmPC[c] = "ret" \/ pmCrashed \/ EveryPortRegistered)

\* C21, the second half: the loop draws again only after a lookup that found
\* the drawn port registered, and returns the drawn port otherwise
RetriesOnlyOnCollision ==
    [][\A c \in Callers :
          pmPC[c] = "lookup" /\ pmPC'[c] # "lookup" =>
              IF pmPort[c] \in DOMAIN listeners
              THEN pmPC'[c] = "rand"
              ELSE pmPC'[c] = "ret" /\ pmRet'[c] = pmPort[c]]_vars

\* a caller is retrying inside NextEmptyEphemeralPort with every port registered
EveryPortRegisteredWitness ==
    /\ EveryPortRegistered
    /\ ~pmCrashed
    /\ \E c \in Callers : pmPC[c] = "rand" /\ pmRetried[c]

\* a caller has returned from NextEmptyEphemeralPort after a collision
ReturnedAfterRetryWitness ==
    \E c \in Callers : pmPC[c] = "ret" /\ pmRetried[c] /\ ~pmCrashed

-----------------------------------------------------------------------------
(* Claims about DeleteTransport, checked under SpecDelete *)

\* the calls of DeleteTransport that took managed transport t from the table
TookFromTable(t) == {c \in DeleteCallers : dlCall[c].tr = t}

\* C22: a DeleteTransport call that found its id in the table closes that
\* managed transport once before the status update and once more after it,
\* twice in all; a call that found nothing has invoked Close on the nil
\* transport by the time it reaches the status update and the nil guard
DeleteTransportDoubleClose ==
    /\ \A c \in DeleteCallers :
        LET call == dlCall[c] IN
        /\ call.pc = "close1" /\ call.tr # NoTr =>
              /\ dlCloses[call.tr] = 0
              /\ \A id \in TransportIDs : dlTable[id] # call.tr
        /\ call.pc \in {"status", "guard"} /\ call.tr # NoTr =>
              call.first = "closed" /\ dlCloses[call.tr] = 1
        /\ call.pc \in {"status", "guard"} /\ call.tr = NoTr =>
              call.first = "nil"
        /\ call.pc = "guard" => Status(call.id, FALSE) \in dlStatuses
    /\ \A done \in dlDone :
        /\ Status(done.id, FALSE) \in dlStatuses
        /\ done.tr # NoTr => dlCloses[done.tr] = 2
    /\ \A t \in DOMAIN dlCloses :
        /\ Cardinality(TookFromTable(t)) <= 1
        /\ dlCloses[t] > 0 =>
              TookFromTable(t) # {} \/ \E done \in dlDone : done.tr = t

\* a DeleteTransport call has returned after closing its transport twice
DeleteTransportDoubleCloseWitness ==
    /\ ~dlCrashed
    /\ \E done \in dlDone : done.tr # NoTr /\ dlCloses[done.tr] = 2

\* a second DeleteTransport of an id a concurrent call has just removed went
\* through Close on nil and returned, while the first call is still running
DeleteAbsentNilCloseWitness ==
    /\ ~dlCrashed
    /\ \E done \in dlDone, c \in DeleteCallers :
        /\ done.tr = NoTr
        /\ dlCall[c].id = done.id
        /\ dlCall[c].tr # NoTr
        /\ dlCall[c].pc = "status"

\* Close on the nil transport panicked
DeleteNilClosePanickedWitness ==
    dlCrashed /\ \E c \in DeleteCallers : dlCall[c].first = "nil"

-----------------------------------------------------------------------------
(* Claims about the status reporting of Manager.Close, checked under SpecMgr *)

\* the managed transports of the table that are public, and the others
TablePublic == {m \in TableTransports : mts[m].Public}

\* C23: Manager.Close closes doneChan first; then, in one section under the
\* lock, it collects Status{ID, IsUp=false} for exactly the public transports
\* of the table and closes exactly those; then it sends the collected statuses
\* in its only UpdateStatuses call and closes every factory; no step of it
\* changes the transports table, and no status of a non-public transport of
\* the table is collected
CloseStatusReporting ==
    /\ mc.pc \in {"lock", "statuses", "closed"} => mgrDone
    /\ mc.pc \in {"idle", "lock"} => mc.collected = {} /\ mc.seen = {}
    /\ mc.pc \in {"idle", "lock", "statuses"} =>
          mc.updates = 0 /\ mc.factories = {}
    /\ mc.pc = "closed" =>
          /\ mc.updates = 1
          /\ mc.factories = FactoryTypes
          /\ mc.collected \subseteq statuses
    /\ mc.pc \in {"statuses", "closed"} =>
          /\ mc.collected = {Status(mts[m].ID, FALSE) :
                                m \in {t \in mc.seen : mts[t].Public}}
          /\ \A m \in mc.seen :
                ~mts[m].Public => \A st \in mc.collected : st.ID # mts[m].ID
    /\ [][mc' # mc =>
            /\ transports' = transports
            /\ mc.pc = "idle" => mc'.pc = "lock" /\ mts' = mts /\ statuses' = statuses
            /\ mc.pc = "lock" =>
                  /\ mc'.pc = "statuses"
                  /\ mc'.seen = TableTransports
                  /\ statuses' = statuses
                  /\ \A m \in DOMAIN mts :
                        IF m \in TablePublic THEN mts'[m].closed
                        ELSE mts'[m] = mts[m]
            /\ mc.pc = "statuses" =>
                  /\ mc'.pc = "closed"
                  /\ statuses' = statuses \cup mc.collected
                  /\ mts' = mts]_vars

\* Close has returned after reporting a public transport and leaving a
\* non-public one of the table out of the report, both still in the table
CloseStatusReportingWitness ==
    /\ mc.pc = "closed"
    /\ ~mgrCrashed
    /\ \E m \in TableTransports :
          mts[m].Public /\ Status(mts[m].ID, FALSE) \in statuses
    /\ \E m \in TableTransports :
          ~mts[m].Public /\ Status(mts[m].ID, FALSE) \notin statuses
                         /\ ~mts[m].closed

-----------------------------------------------------------------------------
(* Claims about transports that are not installed, checked under SpecRaw *)

\* the call that obtained transport t has returned
CallReturned(t) == \A c \in RawCallers : rawCall[c].tr # t

\* C24: every transport a factory returned is, once the call that obtained it
\* has returned, either installed in the table or closed
NoLeakedTransport ==
    \A t \in DOMAIN rawTrs :
        CallReturned(t) => rawTrs[t].installed \/ rawTrs[t].closed

\* C24, the paths that do close: a transport whose settlement handshake
\* failed is closed, and no transport obtained by dialTransport is left open
\* and not installed
NoLeakAfterHandshakeError ==
    \A t \in DOMAIN rawTrs :
        CallReturned(t) /\ ~rawTrs[t].installed /\ ~rawTrs[t].closed =>
            /\ rawTrs[t].by = "accept"
            /\ rawTrs[t].err \in {"closing", "noRemote"}

\* acceptTransport returned because the manager was closing and left the
\* accepted transport open
LeakedWhenClosingWitness ==
    \E t \in DOMAIN rawTrs :
        /\ CallReturned(t)
        /\ rawTrs[t].err = "closing"
        /\ ~rawTrs[t].closed /\ ~rawTrs[t].installed

\* acceptTransport returned because the remote was not in the edges and left
\* the accepted transport open
LeakedWhenNoRemoteWitness ==
    \E t \in DOMAIN rawTrs :
        /\ CallReturned(t)
        /\ rawTrs[t].err = "noRemote"
        /\ ~rawTrs[t].closed /\ ~rawTrs[t].installed

\* a transport whose handshake failed was closed, for both calls
ClosedAfterHandshakeErrorWitness ==
    \A by \in {"dial", "accept"} :
        \E t \in DOMAIN rawTrs :
            /\ CallReturned(t)
            /\ rawTrs[t].by = by
            /\ rawTrs[t].err = "handshakeErr"
            /\ rawTrs[t].closed

-----------------------------------------------------------------------------
(* Claims about installation after Manager.Close, checked under SpecMgr *)

\* C25: once Manager.Close has returned, no step puts a managed transport
\* into the transports table, makes a managed transport or starts a worker
NoInstallAfterClose ==
    [][ManagerClosed =>
        /\ \A id \in TransportIDs :
              transports'[id] # transports[id] => transports'[id] = NoTr
        /\ Len(mts') = Len(mts)
        /\ \A m \in DOMAIN wk : wk[m].pc = "none" => wk'[m].pc = "none"]_vars

\* C25, what the isClosing checks do ensure: once doneChan is closed no call
\* of createTransport or acceptTransport gets past dialTransport's check or
\* the check after Accept, so only a call that was already past its check
\* when Close began can still install
NoCallPassesCheckWhileClosing ==
    [][mgrDone => \A k \in Creators : cr[k].pc = "idle" => cr'[k].pc = "idle"]_vars

\* after Close has returned, a public transport sits in the table, never
\* closed, with its worker running
InstalledAfterCloseWitness ==
    /\ ManagerClosed
    /\ ~mgrCrashed
    /\ \E m \in TableTransports :
          /\ mts[m].Public
          /\ ~mts[m].closed /\ ~mts[m].done
          /\ m \notin mc.seen
          /\ wk[m].pc = "select"

====
